---- MODULE Spec2Model ----
(***************************************************************************)
(* A model of the infrasee CLI: the cross-provider merge                   *)
(* (combineDomainData, src/src/utils/csv.ts) and the `ip` commands that    *)
(* drive the provider adapters (src/unnamed/part_003).                     *)
(*                                                                         *)
(* Strings whose characters the program inspects (names, URLs, IP          *)
(* addresses, paths) are sequences of one-character strings; the empty     *)
(* sequence stands for a field that is undefined or "" (both falsy in JS). *)
(* Strings the program only compares with literals are TLA+ strings.       *)
(***************************************************************************)
EXTENDS Integers, Sequences, FiniteSets, TLC

VARIABLES
    pc,                     \* position of the run
    ip,                     \* the <ip> argument
    cloudflareRecords,      \* result of CloudflareAPI.findDomainsByIP
    coolifyResources,       \* result of CoolifyAPI.findResourcesByIP
    digitalOceanResources,  \* result of DigitalOceanAPI.findResourcesByIP
    gcpResources,           \* result of GCPAPI.findResourcesByIP
    combined,               \* the list returned by combineDomainData
    cmd,                    \* the command run: a provider, "all", or the deprecated "ip"
    options,                \* the command's options
    config,                 \* what loadConfig returned, as the validators see it
    cur,                    \* index of the provider block of `all ip` being run
    calls,                  \* the adapter constructions and calls made, in order
    errors,                 \* the warnings list of `all ip`
    stderr,                 \* messages shown by displayError
    emitted,                \* the result the run printed or saved
    written,                \* the files written
    exitCode,               \* empty while running, then the exit code of the process
    adapter,                \* the fields of the adapter object the run constructed
    remote                  \* what the provider's API holds and which requests fail

results == <<cloudflareRecords, coolifyResources, digitalOceanResources, gcpResources>>
vars == <<pc, ip, cloudflareRecords, coolifyResources, digitalOceanResources,
          gcpResources, combined, cmd, options, config, cur, calls, errors, stderr,
          emitted, written, exitCode, adapter, remote>>

----------------------------------------------------------------------------
(* Bounds of the model *)

\* total number of resources over the four input lists of one merge
MaxResources == 4

----------------------------------------------------------------------------
(* Characters and string primitives *)

LowerLetters == <<"a","b","c","d","e","f","g","h","i","j","k","l","m",
                  "n","o","p","q","r","s","t","u","v","w","x","y","z">>
UpperLetters == <<"A","B","C","D","E","F","G","H","I","J","K","L","M",
                  "N","O","P","Q","R","S","T","U","V","W","X","Y","Z">>

IsUpper(c) == c \in {UpperLetters[i] : i \in DOMAIN UpperLetters}

\* the lower-case letter of each capital
LowerOf ==
    [c \in {UpperLetters[i] : i \in DOMAIN UpperLetters} |->
       LowerLetters[CHOOSE i \in DOMAIN UpperLetters : UpperLetters[i] = c]]

\* String.prototype.toLowerCase on one ASCII character
ToLowerChar(c) == IF IsUpper(c) THEN LowerOf[c] ELSE c

ToLower(s) == [i \in DOMAIN s |-> ToLowerChar(s[i])]

\* a JS value used as a condition: a non-empty string is truthy
Truthy(s) == s # <<>>

\* position of the first occurrence of character c in s at or after `from`, 0 if none
RECURSIVE IndexOf(_, _, _)
IndexOf(s, c, from) ==
    IF from > Len(s) THEN 0
    ELSE IF s[from] = c THEN from
    ELSE IndexOf(s, c, from + 1)

\* the primary collation order of the characters of host and resource names
\* (punctuation before digits before letters; a letter and its capital share a rank)
CollationOrder == <<"-", ",", ".", "0","1","2","3","4","5","6","7","8","9">> \o LowerLetters

PrimaryOf ==
    [c \in {CollationOrder[i] : i \in DOMAIN CollationOrder} |->
       CHOOSE i \in DOMAIN CollationOrder : CollationOrder[i] = c]

Primary(c) == PrimaryOf[ToLowerChar(c)]

RECURSIVE ComparePrimary(_, _)
ComparePrimary(a, b) ==
    IF a = <<>> THEN (IF b = <<>> THEN 0 ELSE -1)
    ELSE IF b = <<>> THEN 1
    ELSE IF Primary(Head(a)) < Primary(Head(b)) THEN -1
    ELSE IF Primary(Head(a)) > Primary(Head(b)) THEN 1
    ELSE ComparePrimary(Tail(a), Tail(b))

\* tertiary level: at the first position where the case differs, lower case first
RECURSIVE CompareCase(_, _)
CompareCase(a, b) ==
    IF a = <<>> \/ b = <<>> THEN 0
    ELSE IF IsUpper(Head(a)) = IsUpper(Head(b)) THEN CompareCase(Tail(a), Tail(b))
    ELSE IF IsUpper(Head(b)) THEN -1
    ELSE 1

\* String.prototype.localeCompare: negative, zero or positive
localeCompare(a, b) ==
    LET p == ComparePrimary(a, b)
    IN  IF p # 0 THEN p ELSE CompareCase(a, b)

\* new URL(url).hostname for scheme "://" host [":" port] ["/" path]:
\* the text between "//" and the first of ":", "/", "?", "#", in lower case
RECURSIVE HostEnd(_, _)
HostEnd(s, from) ==
    IF from > Len(s) THEN Len(s)
    ELSE IF s[from] \in {":", "/", "?", "#"} THEN from - 1
    ELSE HostEnd(s, from + 1)

Hostname(url) ==
    LET colon == IndexOf(url, ":", 1)
        start == colon + 3
    IN  ToLower(SubSeq(url, start, HostEnd(url, start)))

----------------------------------------------------------------------------
(* combineDomainData *)

\* the values of a list in first-occurrence order: iteration order of new Set(list)
RECURSIVE SetOrder(_)
SetOrder(s) ==
    IF s = <<>> THEN <<>>
    ELSE LET r == SetOrder(SubSeq(s, 1, Len(s) - 1))
             last == s[Len(s)]
         IN  IF \E i \in DOMAIN r : r[i] = last THEN r ELSE Append(r, last)

Range(s) == {s[i] : i \in DOMAIN s}

\* list.filter(keep).map(f) for sequences
FilterMap(s, keep(_), f(_)) ==
    LET F[i \in 0..Len(s)] ==
          IF i = 0 THEN <<>>
          ELSE IF keep(s[i]) THEN Append(F[i - 1], f(s[i]))
          ELSE F[i - 1]
    IN  F[Len(s)]

HasFqdn(r) == Truthy(r.fqdn)
FqdnOf(r) == r.fqdn
HasDomain(r) == Truthy(r.domain)
DomainOf(r) == r.domain
HasUrl(r) == Truthy(r.url)
UrlHostOf(r) == Hostname(r.url)
NameOf(r) == r.name
Always(r) == TRUE

coolifyDomains(coolify) == SetOrder(FilterMap(coolify, HasFqdn, FqdnOf))
digitalOceanDomains(digitalOcean) == Range(FilterMap(digitalOcean, HasDomain, DomainOf))
\* a slip: only the first resource's name is collected
FirstResourceNameOnly(digitalOcean) ==
    IF digitalOcean = <<>> THEN {} ELSE {digitalOcean[1].name}

digitalOceanResourceNames(digitalOcean) == Range(FilterMap(digitalOcean, Always, NameOf))
gcpResourceNames(gcp) == Range(FilterMap(gcp, Always, NameOf))
gcpUrls(gcp) == Range(FilterMap(gcp, HasUrl, UrlHostOf))
cloudflareDomains(cloudflare) == Range(FilterMap(cloudflare, Always, NameOf))

\* a chain of tests that asks for the single providers first
CloudflareLabelOfFirstProvider(inCoolify, inDigitalOcean, inGCP) ==
    IF inCoolify THEN "cloudflare+coolify"
    ELSE IF inDigitalOcean THEN "cloudflare+digitalocean"
    ELSE IF inGCP THEN "cloudflare+gcp"
    ELSE "cloudflare"

\* the label chosen in the Cloudflare loop
CloudflareLabel(inCoolify, inDigitalOcean, inGCP) ==
    IF inCoolify /\ inDigitalOcean /\ inGCP THEN "all"
    ELSE IF inCoolify /\ inDigitalOcean THEN "cloudflare+coolify+digitalocean"
    ELSE IF inCoolify /\ inGCP THEN "cloudflare+coolify+gcp"
    ELSE IF inDigitalOcean /\ inGCP THEN "cloudflare+digitalocean+gcp"
    ELSE IF inCoolify THEN "cloudflare+coolify"
    ELSE IF inDigitalOcean THEN "cloudflare+digitalocean"
    ELSE IF inGCP THEN "cloudflare+gcp"
    ELSE "cloudflare"

\* the label chosen in the Coolify loop
CoolifyLabel(inDigitalOcean, inGCP) ==
    IF inDigitalOcean /\ inGCP THEN "coolify+digitalocean+gcp"
    ELSE IF inDigitalOcean THEN "coolify+digitalocean"
    ELSE IF inGCP THEN "coolify+gcp"
    ELSE "coolify"

\* first loop: one entry per Cloudflare record
CloudflareEntries(q, cloudflare, coolify, digitalOcean, gcp) ==
    LET coolSet == Range(coolifyDomains(coolify))
        doDomains == digitalOceanDomains(digitalOcean)
        doNames == digitalOceanResourceNames(digitalOcean)
        gcpNames == gcpResourceNames(gcp)
        gcpHosts == gcpUrls(gcp)
        Entry(record) ==
          LET inCoolify == record.name \in coolSet
              inDigitalOcean == record.name \in doDomains \/ record.name \in doNames
              inGCP == record.name \in gcpNames \/ record.name \in gcpHosts
          IN  [ip |-> q, domain |-> record.name,
               dns |-> CloudflareLabel(inCoolify, inDigitalOcean, inGCP),
               inCoolify |-> inCoolify, inDigitalOcean |-> inDigitalOcean,
               inGCP |-> inGCP, resourceType |-> "domain"]
    IN  FilterMap(cloudflare, Always, Entry)

\* second loop: one entry per distinct Coolify FQDN that Cloudflare does not hold
CoolifyEntries(q, cloudflare, coolify, digitalOcean, gcp) ==
    LET cfSet == cloudflareDomains(cloudflare)
        doDomains == digitalOceanDomains(digitalOcean)
        doNames == digitalOceanResourceNames(digitalOcean)
        gcpNames == gcpResourceNames(gcp)
        gcpHosts == gcpUrls(gcp)
        Keep(domain) == domain \notin cfSet
        Entry(domain) ==
          LET inDigitalOcean == domain \in doDomains \/ domain \in doNames
              inGCP == domain \in gcpNames \/ domain \in gcpHosts
          IN  [ip |-> q, domain |-> domain,
               dns |-> CoolifyLabel(inDigitalOcean, inGCP),
               inCoolify |-> TRUE, inDigitalOcean |-> inDigitalOcean,
               inGCP |-> inGCP, resourceType |-> "domain"]
    IN  FilterMap(coolifyDomains(coolify), Keep, Entry)

DigitalOceanResourceType(resource) ==
    IF resource.type = "droplet" THEN "droplet"
    ELSE IF resource.type = "load_balancer" THEN "load_balancer"
    ELSE IF resource.type = "floating_ip" THEN "floating_ip"
    ELSE "domain"

\* third loop: the DigitalOcean resources not skipped
DigitalOceanEntries(q, cloudflare, coolify, digitalOcean) ==
    LET seen == cloudflareDomains(cloudflare) \cup Range(coolifyDomains(coolify))
        Keep(resource) ==
          IF Truthy(resource.domain) THEN resource.domain \notin seen
          ELSE resource.name \notin seen
        Entry(resource) ==
          [ip |-> q,
           domain |-> IF Truthy(resource.domain) THEN resource.domain ELSE resource.name,
           dns |-> "digitalocean",
           inCoolify |-> FALSE, inDigitalOcean |-> TRUE, inGCP |-> FALSE,
           resourceType |-> DigitalOceanResourceType(resource)]
    IN  FilterMap(digitalOcean, Keep, Entry)

GCPResourceType(resource) ==
    IF resource.type \in {"compute_instance", "load_balancer", "cloud_run",
                          "gke_cluster", "gke_service"}
    THEN resource.type
    ELSE "domain"

\* const identifier = resourceUrl || resourceName
GCPIdentifier(resource) ==
    LET resourceUrl == IF Truthy(resource.url) THEN Hostname(resource.url) ELSE <<>>
    IN  IF Truthy(resourceUrl) THEN resourceUrl ELSE resource.name

\* fourth loop: the GCP resources not skipped
GCPEntries(q, cloudflare, coolify, digitalOcean, gcp) ==
    LET seen == cloudflareDomains(cloudflare) \cup Range(coolifyDomains(coolify))
                  \cup digitalOceanResourceNames(digitalOcean)
        Keep(resource) == GCPIdentifier(resource) \notin seen
        Entry(resource) ==
          [ip |-> q, domain |-> GCPIdentifier(resource), dns |-> "gcp",
           inCoolify |-> FALSE, inDigitalOcean |-> FALSE, inGCP |-> TRUE,
           resourceType |-> GCPResourceType(resource)]
    IN  FilterMap(gcp, Keep, Entry)

\* insert e behind every element of the sorted list s that does not compare greater
RECURSIVE InsertByDomain(_, _)
InsertByDomain(s, e) ==
    IF s = <<>> THEN <<e>>
    ELSE IF localeCompare(s[Len(s)].domain, e.domain) <= 0 THEN Append(s, e)
    ELSE Append(InsertByDomain(SubSeq(s, 1, Len(s) - 1), e), s[Len(s)])

\* a slip: the list is returned in insertion order
Unsorted(s) == s

\* combined.sort((a, b) => a.domain.localeCompare(b.domain)): Array.prototype.sort is stable
RECURSIVE SortByDomain(_)
SortByDomain(s) ==
    IF s = <<>> THEN <<>>
    ELSE InsertByDomain(SortByDomain(SubSeq(s, 1, Len(s) - 1)), s[Len(s)])

combineDomainData(q, cloudflare, coolify, digitalOcean, gcp) ==
    SortByDomain(CloudflareEntries(q, cloudflare, coolify, digitalOcean, gcp)
                 \o CoolifyEntries(q, cloudflare, coolify, digitalOcean, gcp)
                 \o DigitalOceanEntries(q, cloudflare, coolify, digitalOcean)
                 \o GCPEntries(q, cloudflare, coolify, digitalOcean, gcp))


----------------------------------------------------------------------------
(* isValidIP *)

RECURSIVE Split(_, _)
\* s.split(sep) for a one-character separator
Split(s, sep) ==
    LET k == IndexOf(s, sep, 1)
    IN  IF k = 0 THEN <<s>>
        ELSE <<SubSeq(s, 1, k - 1)>> \o Split(SubSeq(s, k + 1, Len(s)), sep)

Digits == {"0","1","2","3","4","5","6","7","8","9"}
HexDigits == Digits \cup {"a","b","c","d","e","f","A","B","C","D","E","F"}

\* 25[0-5] | 2[0-4][0-9] | [01]?[0-9][0-9]?
MatchesOctet(t) ==
    /\ Len(t) \in 1..3
    /\ \A i \in DOMAIN t : t[i] \in Digits
    /\ Len(t) = 3 =>
         \/ t[1] \in {"0", "1"}
         \/ t[1] = "2" /\ t[2] \in {"0","1","2","3","4"}
         \/ t[1] = "2" /\ t[2] = "5" /\ t[3] \in {"0","1","2","3","4","5"}

\* [0-9a-fA-F]{1,4}
MatchesHextet(t) ==
    /\ Len(t) \in 1..4
    /\ \A i \in DOMAIN t : t[i] \in HexDigits

isValidIP(q) ==
    LET v4 == Split(q, ".")
        v6 == Split(q, ":")
        ipv4Pattern == Len(v4) = 4 /\ \A i \in DOMAIN v4 : MatchesOctet(v4[i])
        ipv6Pattern == Len(v6) = 8 /\ \A i \in DOMAIN v6 : MatchesHextet(v6[i])
    IN  ipv4Pattern \/ ipv6Pattern

----------------------------------------------------------------------------
(* The values the inputs are drawn from *)

Str_a_io == <<"a", ".", "i", "o">>
Str_b_io == <<"b", ".", "i", "o">>
Str_w_a_io == <<"w", ".", "a", ".", "i", "o">>
Str_web == <<"w", "e", "b">>
Str_Unassigned == <<"U", "n", "a", "s", "s", "i", "g", "n", "e", "d">>
Str_Web == <<"W", "e", "b">>
\* the message of the JSON body with which the DigitalOcean API answers 404
Str_NotFound ==
    <<"T","h","e"," ","r","e","s","o","u","r","c","e"," ","y","o","u"," ","w","e","r","e",
      " ","a","t","t","e","m","p","t","i","n","g"," ","t","o"," ","f","i","n","d"," ",
      "c","o","u","l","d"," ","n","o","t"," ","b","e"," ","f","o","u","n","d">>
Str_app == <<"a", "p", "p">>
Str_svc == <<"s", "v", "c">>
Str_api == <<"a", "p", "i">>
\* https://A.io/x
Url_A_io == <<"h","t","t","p","s",":","/","/","A",".","i","o","/","x">>
\* https://b.io:8443
Url_b_io == <<"h","t","t","p","s",":","/","/","b",".","i","o",":","8","4","4","3">>

\* 10.0.0.1, 10.0.0.256, ::1
IPArguments ==
    { <<"1","0",".","0",".","0",".","1">>,
      <<"1","0",".","0",".","0",".","2","5","6">>,
      <<":",":","1">> }

CloudflareChoices ==
    { [name |-> Str_a_io, zone_name |-> Str_a_io],
      [name |-> Str_b_io, zone_name |-> Str_b_io] }

CoolifyChoices ==
    { [type |-> "application", name |-> Str_app, fqdn |-> Str_a_io],
      [type |-> "service", name |-> Str_svc, fqdn |-> Str_b_io],
      [type |-> "database", name |-> Str_web, fqdn |-> <<>>] }

DigitalOceanChoices ==
    { [type |-> "droplet", name |-> Str_web, domain |-> <<>>],
      [type |-> "droplet", name |-> Str_Web, domain |-> <<>>],
      [type |-> "domain_record", name |-> Str_a_io, domain |-> Str_a_io],
      [type |-> "domain_record", name |-> Str_w_a_io, domain |-> Str_a_io] }

GCPChoices ==
    { [type |-> "compute_instance", name |-> Str_web, url |-> <<>>],
      [type |-> "cloud_run", name |-> Str_svc, url |-> Url_A_io],
      [type |-> "cloud_run", name |-> Str_api, url |-> Url_b_io] }

SeqsUpTo(S, n) == UNION {[1..k -> S] : k \in 0..n}

\* s with the elements at i and i + 1 exchanged
SwapAt(s, i) ==
    [k \in DOMAIN s |-> IF k = i THEN s[i + 1] ELSE IF k = i + 1 THEN s[i] ELSE s[k]]

\* the variables of a command run that a call of combineDomainData leaves alone
cli == <<cmd, options, config, cur, calls, errors, stderr, emitted, written, exitCode,
         adapter, remote>>

\* the exit status: none while the command is running, then the code it exited with
Running == <<>>
Exited(code) == <<code>>

NothingEmitted == [format |-> "none", target |-> "none"]

\* no adapter constructed; a provider API that is not looked into
NoAdapter == <<>>
NoRemote == <<>>

----------------------------------------------------------------------------
(* The merge as a function of four lists: SpecMerge *)

InitMerge ==
    /\ pc = "merge"
    /\ ip \in {q \in IPArguments : isValidIP(q)}
    /\ cloudflareRecords \in SeqsUpTo(CloudflareChoices, MaxResources)
    /\ coolifyResources \in
         SeqsUpTo(CoolifyChoices, MaxResources - Len(cloudflareRecords))
    /\ digitalOceanResources \in
         SeqsUpTo(DigitalOceanChoices,
                  MaxResources - Len(cloudflareRecords) - Len(coolifyResources))
    /\ gcpResources \in
         SeqsUpTo(GCPChoices,
                  MaxResources - Len(cloudflareRecords) - Len(coolifyResources)
                    - Len(digitalOceanResources))
    /\ combined = <<>>
    /\ cmd = "all"
    /\ options = [json |-> FALSE, simple |-> FALSE, csv |-> TRUE, allProjects |-> FALSE,
                  output |-> <<>>]
    /\ config = [cloudflare |-> TRUE, coolify |-> TRUE, digitalocean |-> TRUE,
                 gcpAuth |-> TRUE, gcpValid |-> TRUE]
    /\ cur = 0
    /\ calls = <<>>
    /\ errors = <<>>
    /\ stderr = <<>>
    /\ emitted = NothingEmitted
    /\ written = <<>>
    /\ exitCode = Running
    /\ adapter = NoAdapter
    /\ remote = NoRemote

\* combineDomainData is called on the four lists
Combine ==
    /\ pc \in {"merge", "merged"}
    /\ combined' = combineDomainData(ip, cloudflareRecords, coolifyResources,
                                     digitalOceanResources, gcpResources)
    /\ pc' = "merged"
    /\ UNCHANGED <<ip, cloudflareRecords, coolifyResources, digitalOceanResources,
                   gcpResources>>
    /\ UNCHANGED cli

\* combineDomainData is called again with two neighbours of one list exchanged
CombinePermuted ==
    /\ pc = "merged"
    /\ \E which \in 1..4 :
         LET lists == <<cloudflareRecords, coolifyResources, digitalOceanResources,
                        gcpResources>>
         IN  \E i \in 1..(Len(lists[which]) - 1) :
               LET after == [lists EXCEPT ![which] = SwapAt(lists[which], i)]
               IN  /\ cloudflareRecords' = after[1]
                   /\ coolifyResources' = after[2]
                   /\ digitalOceanResources' = after[3]
                   /\ gcpResources' = after[4]
                   /\ combined' = combineDomainData(ip, after[1], after[2], after[3],
                                                    after[4])
    /\ UNCHANGED <<pc, ip>>
    /\ UNCHANGED cli

NextMerge == Combine \/ CombinePermuted

SpecMerge == InitMerge /\ [][NextMerge]_vars


----------------------------------------------------------------------------
(* validateFilePath and secureWriteFile *)

\* the segments of a path after path.normalize has resolved "", "." and ".."
RECURSIVE NormalSegments(_, _, _)
NormalSegments(segments, stack, absolute) ==
    IF segments = <<>> THEN stack
    ELSE LET seg == Head(segments)
             rest == Tail(segments)
         IN  IF seg = <<>> \/ seg = <<".">> THEN NormalSegments(rest, stack, absolute)
             ELSE IF seg = <<".", ".">>
               THEN IF stack # <<>> /\ stack[Len(stack)] # <<".", ".">>
                      THEN NormalSegments(rest, SubSeq(stack, 1, Len(stack) - 1), absolute)
                    ELSE IF absolute THEN NormalSegments(rest, stack, absolute)
                    ELSE NormalSegments(rest, Append(stack, seg), absolute)
             ELSE NormalSegments(rest, Append(stack, seg), absolute)

RECURSIVE Join(_, _)
\* segments.join(sep)
Join(segments, sep) ==
    IF segments = <<>> THEN <<>>
    ELSE IF Len(segments) = 1 THEN segments[1]
    ELSE segments[1] \o <<sep>> \o Join(Tail(segments), sep)

\* path.normalize (POSIX)
normalize(path) ==
    IF path = <<>> THEN <<".">>
    ELSE LET absolute == path[1] = "/"
             trailing == path[Len(path)] = "/"
             joined == Join(NormalSegments(Split(path, "/"), <<>>, absolute), "/")
             body == IF joined = <<>> /\ ~absolute THEN <<".">> ELSE joined
             tail == IF trailing /\ (joined # <<>> \/ ~absolute) THEN <<"/">> ELSE <<>>
         IN  (IF absolute THEN <<"/">> ELSE <<>>) \o body \o tail

\* the working directory of the process: /w
Cwd == <<"/", "w">>

\* path.resolve(process.cwd(), relative): normalized, without a trailing slash
resolve(cwd, relative) ==
    <<"/">> \o Join(NormalSegments(Split(cwd \o <<"/">> \o relative, "/"), <<>>, TRUE), "/")

\* s.startsWith(prefix)
StartsWith(s, prefix) ==
    Len(s) >= Len(prefix) /\ SubSeq(s, 1, Len(prefix)) = prefix

\* s.includes(part)
Includes(s, part) ==
    \E i \in 1..(Len(s) - Len(part) + 1) : SubSeq(s, i, i + Len(part) - 1) = part

restrictedPaths ==
    << <<"/","e","t","c">>, <<"/","u","s","r">>, <<"/","b","i","n">>,
       <<"/","s","b","i","n">>, <<"/","b","o","o","t">>, <<"/","d","e","v">>,
       <<"/","p","r","o","c">>, <<"/","s","y","s">>, <<"/","r","o","o","t">>,
       <<"C",":","\\","W","i","n","d","o","w","s">>,
       <<"C",":","\\","P","r","o","g","r","a","m"," ","F","i","l","e","s">> >>

\* the absolute path validateFilePath returns
ValidatedPath(filePath) ==
    LET normalized == normalize(filePath)
    IN  IF normalized[1] = "/" THEN normalized ELSE resolve(Cwd, normalized)

\* validateFilePath throws
validateFilePathRejects(filePath) ==
    \/ Includes(normalize(filePath), <<".", ".">>)
    \/ \E i \in DOMAIN restrictedPaths :
         StartsWith(ToLower(ValidatedPath(filePath)), ToLower(restrictedPaths[i]))

----------------------------------------------------------------------------
(* The `ip` commands *)

Providers == <<"cloudflare", "coolify", "digitalocean", "gcp">>

DisplayName(provider) ==
    IF provider = "cloudflare" THEN "Cloudflare"
    ELSE IF provider = "coolify" THEN "Coolify"
    ELSE IF provider = "digitalocean" THEN "DigitalOcean"
    ELSE "GCP"

Commands == {"cloudflare", "coolify", "digitalocean", "gcp", "all", "ip"}

\* the provider a single-provider command searches
ProviderOf(command) == IF command = "ip" THEN "cloudflare" ELSE command

\* o.txt, /etc/o, a/../../o
PathArguments ==
    { <<"o", ".", "t", "x", "t">>,
      <<"/", "e", "t", "c", "/", "o">>,
      <<"a", "/", ".", ".", "/", ".", ".", "/", "o">> }

\* the option combinations of a command: csv and allProjects only where the command
\* declares them; the format flags are independent of each other
OptionChoices(command) ==
    { o \in [json : BOOLEAN, simple : BOOLEAN, csv : BOOLEAN, allProjects : BOOLEAN,
             output : {<<>>} \cup PathArguments] :
        /\ o.csv => command = "all"
        /\ o.allProjects => command \in {"all", "gcp"} }

\* what the validators answer for the loaded configuration, and hasGCPAuth
ConfigChoices ==
    [cloudflare : BOOLEAN, coolify : BOOLEAN, digitalocean : BOOLEAN,
     gcpAuth : BOOLEAN, gcpValid : BOOLEAN]

\* the characters of a message as the text pushed to the warnings list
RECURSIVE Text(_)
Text(s) == IF s = <<>> THEN "" ELSE Head(s) \o Text(Tail(s))

\* the message of an error an adapter throws
HttpError == "HTTP 500: Internal Server Error"

\* CloudflareAPI.handleError words the response: Cloudflare API Error: <status> - <text>
CloudflareError == "Cloudflare API Error: 500 - Internal Server Error"

\* what an adapter throws for a request answered 500 without a body: the error of
\* HttpClient.request, which CloudflareAPI.handleError words anew
RequestFailed(provider) ==
    IF provider = "cloudflare" THEN CloudflareError ELSE HttpError

\* the error thrown for the DigitalOcean API's 404 with a JSON body
ResourceNotFound == Text(Str_NotFound)

\* the messages of the errors a provider's discovery throws: the one of a request
\* answered 500, and for DigitalOcean the message of the API's 404 to a domain's
\* records, which getDomainRecords takes for "no records" only when it includes '404'
ErrorMessages(provider) ==
    {RequestFailed(provider)}
      \cup IF provider = "digitalocean" THEN {ResourceNotFound} ELSE {}

\* what a provider's discovery can return
Found(provider) ==
    IF provider = "cloudflare"
      THEN { <<>>, <<[name |-> Str_a_io, zone_name |-> Str_a_io]>> }
    ELSE IF provider = "coolify"
      THEN { <<>>, <<[type |-> "application", name |-> Str_app, fqdn |-> Str_a_io]>> }
    ELSE IF provider = "digitalocean"
      THEN { <<>>, <<[type |-> "droplet", name |-> Str_web, domain |-> <<>>]>> }
    ELSE { <<>>, <<[type |-> "compute_instance", name |-> Str_web, url |-> <<>>]>> }

\* the format the options select in `all ip`: csv, then simple, then json, then text
AllFormat(o) ==
    IF o.csv THEN "csv" ELSE IF o.simple THEN "simple" ELSE IF o.json THEN "json"
    ELSE "text"

\* the format the options select in a single-provider command
SingleFormat(o) ==
    IF o.simple THEN "simple" ELSE IF o.json THEN "json" ELSE "text"

\* hasCloudflare, hasCoolify, hasDigitalOcean, hasGCP of `all ip`
Has(provider) ==
    IF provider = "cloudflare" THEN config.cloudflare
    ELSE IF provider = "coolify" THEN config.coolify
    ELSE IF provider = "digitalocean" THEN config.digitalocean
    ELSE IF options.allProjects THEN config.gcpAuth
    ELSE config.gcpValid

\* the validator a single-provider command asks
Validates(provider) ==
    IF provider = "cloudflare" THEN config.cloudflare
    ELSE IF provider = "coolify" THEN config.coolify
    ELSE IF provider = "digitalocean" THEN config.digitalocean
    ELSE config.gcpValid

Call(op, provider, result) == [op |-> op, provider |-> provider, result |-> result]

\* displayError(message); process.exit(1)
Fail(message) ==
    /\ stderr' = Append(stderr, message)
    /\ exitCode' = Exited(1)
    /\ pc' = "done"

\* results[provider] := list
SetFound(provider, list) ==
    /\ cloudflareRecords' = IF provider = "cloudflare" THEN list ELSE cloudflareRecords
    /\ coolifyResources' = IF provider = "coolify" THEN list ELSE coolifyResources
    /\ digitalOceanResources' =
         IF provider = "digitalocean" THEN list ELSE digitalOceanResources
    /\ gcpResources' = IF provider = "gcp" THEN list ELSE gcpResources

InitCli ==
    /\ pc = "start"
    /\ cmd \in Commands
    /\ ip \in IPArguments
    /\ options \in OptionChoices(cmd)
    /\ config \in ConfigChoices
    /\ cloudflareRecords = <<>>
    /\ coolifyResources = <<>>
    /\ digitalOceanResources = <<>>
    /\ gcpResources = <<>>
    /\ combined = <<>>
    /\ cur = 0
    /\ calls = <<>>
    /\ errors = <<>>
    /\ stderr = <<>>
    /\ emitted = NothingEmitted
    /\ written = <<>>
    /\ exitCode = Running
    /\ adapter = NoAdapter
    /\ remote = NoRemote

FailedToConnect(provider) == "Failed to connect to " \o DisplayName(provider) \o " API"

Thrown(provider, message) == DisplayName(provider) \o ": " \o message

\* the provider blocks of `all ip` run in the order of Providers; after the last, the report
AfterProvider ==
    IF cur = Len(Providers)
      THEN pc' = "report" /\ cur' = 0
      ELSE pc' = "provider" /\ cur' = cur + 1

\* the outcome of writeFileSync(path, content): the file system accepts the write or throws
FileSystemAccepts == BOOLEAN

\* secureWriteFile(options.output, content), then the handler returns
SecureWriteFile(format) ==
    \E accepted \in FileSystemAccepts :
      IF validateFilePathRejects(options.output) \/ ~accepted
        THEN /\ Fail("Security error")
             /\ UNCHANGED <<emitted, written>>
        ELSE /\ written' = Append(written, [path |-> ValidatedPath(options.output),
                                            validated |-> TRUE])
             /\ emitted' = [format |-> format, target |-> "file"]
             /\ exitCode' = Exited(0)
             /\ pc' = "done"
             /\ UNCHANGED stderr

\* writeFileSync(options.output, content) in the async action: a throw rejects the
\* action's promise, which nothing handles, and the process ends with code 1
WriteFileSync(format) ==
    \E accepted \in FileSystemAccepts :
      IF ~accepted
        THEN /\ Fail("Unhandled rejection")
             /\ UNCHANGED <<emitted, written>>
        ELSE /\ written' = Append(written, [path |-> options.output, validated |-> FALSE])
             /\ emitted' = [format |-> format, target |-> "file"]
             /\ exitCode' = Exited(0)
             /\ pc' = "done"
             /\ UNCHANGED stderr

\* console.log(output), then the handler returns
ConsoleLog(format) ==
    /\ emitted' = [format |-> format, target |-> "stdout"]
    /\ exitCode' = Exited(0)
    /\ pc' = "done"
    /\ UNCHANGED <<stderr, written>>

(* `all ip` *)

\* the action never validates the argument
AllSkipValidateIP ==
    /\ UNCHANGED <<adapter, remote>>
    /\ cmd = "all" /\ pc = "start"
    /\ pc' = "config"
    /\ UNCHANGED <<ip, results, combined, cmd, options, config, cur, calls, errors,
                   stderr, emitted, written, exitCode>>

AllValidateIP ==
    /\ UNCHANGED <<adapter, remote>>
    /\ cmd = "all" /\ pc = "start"
    /\ IF ~isValidIP(ip)
         THEN Fail("Invalid IP address")
         ELSE pc' = "config" /\ UNCHANGED <<stderr, exitCode>>
    /\ UNCHANGED <<ip, results, combined, cmd, options, config, cur, calls, errors,
                   emitted, written>>

\* with nothing configured the action goes on to search and report
AllIgnoreConfig ==
    /\ UNCHANGED <<adapter, remote>>
    /\ cmd = "all" /\ pc = "config"
    /\ pc' = "provider" /\ cur' = 1
    /\ UNCHANGED <<ip, results, combined, cmd, options, config, calls, errors,
                   stderr, emitted, written, exitCode>>

AllCheckConfig ==
    /\ UNCHANGED <<adapter, remote>>
    /\ cmd = "all" /\ pc = "config"
    /\ IF \A i \in DOMAIN Providers : ~Has(Providers[i])
         THEN Fail("No valid credentials found for any service.") /\ UNCHANGED cur
         ELSE pc' = "provider" /\ cur' = 1 /\ UNCHANGED <<stderr, exitCode>>
    /\ UNCHANGED <<ip, results, combined, cmd, options, config, calls, errors,
                   emitted, written>>

\* a block without its if (hasX): the adapter is constructed whatever is configured
AllStartEveryProvider ==
    /\ UNCHANGED <<adapter, remote>>
    /\ cmd = "all" /\ pc = "provider"
    /\ calls' = calls \o << Call("new", Providers[cur], "returned"),
                            Call("testConnection", Providers[cur], "called") >>
    /\ pc' = "test"
    /\ UNCHANGED cur
    /\ UNCHANGED <<ip, results, combined, cmd, options, config, errors,
                   stderr, emitted, written, exitCode>>

\* if (hasX) { try { new XAPI(config); await api.testConnection() ...
AllStartProvider ==
    /\ UNCHANGED <<adapter, remote>>
    /\ cmd = "all" /\ pc = "provider"
    /\ IF Has(Providers[cur])
         THEN /\ calls' = calls \o << Call("new", Providers[cur], "returned"),
                                      Call("testConnection", Providers[cur], "called") >>
              /\ pc' = "test"
              /\ UNCHANGED cur
         ELSE AfterProvider /\ UNCHANGED calls
    /\ UNCHANGED <<ip, results, combined, cmd, options, config, errors,
                   stderr, emitted, written, exitCode>>

\* a provider that cannot connect ends the command
AllTestFails ==
    /\ UNCHANGED <<adapter, remote>>
    /\ cmd = "all" /\ pc = "test"
    /\ \E outcome \in {"true", "false"} :
         /\ IF outcome = "true"
              THEN /\ calls' = calls \o << Call("testConnection", Providers[cur], outcome),
                                           Call("find", Providers[cur], "called") >>
                   /\ pc' = "find"
                   /\ UNCHANGED <<cur, errors, stderr, exitCode>>
              ELSE /\ calls' = Append(calls, Call("testConnection", Providers[cur], outcome))
                   /\ Fail(FailedToConnect(Providers[cur]))
                   /\ UNCHANGED <<cur, errors>>
    /\ UNCHANGED <<ip, results, combined, cmd, options, config, emitted, written>>

\* isConnected = await api.testConnection(); if (isConnected) find... else errors.push;
\* testConnection catches what its request throws and answers false
AllTestReturns ==
    /\ UNCHANGED <<adapter, remote>>
    /\ cmd = "all" /\ pc = "test"
    /\ \E outcome \in {"true", "false"} :
         IF outcome = "true"
           THEN /\ calls' = calls \o << Call("testConnection", Providers[cur], outcome),
                                        Call("find", Providers[cur], "called") >>
                /\ pc' = "find"
                /\ UNCHANGED <<cur, errors>>
           ELSE /\ calls' = Append(calls, Call("testConnection", Providers[cur], outcome))
                /\ errors' = Append(errors, FailedToConnect(Providers[cur]))
                /\ AfterProvider
    /\ UNCHANGED <<ip, results, combined, cmd, options, config,
                   stderr, emitted, written, exitCode>>

\* a discovery error is not caught per provider and ends the command
AllFindFails ==
    /\ UNCHANGED <<adapter, remote>>
    /\ cmd = "all" /\ pc = "find"
    /\ \/ \E list \in Found(Providers[cur]) :
            /\ SetFound(Providers[cur], list)
            /\ calls' = Append(calls, Call("find", Providers[cur], "returned"))
            /\ AfterProvider
            /\ UNCHANGED <<errors, stderr, exitCode>>
       \/ \E message \in ErrorMessages(Providers[cur]) :
            /\ calls' = Append(calls, Call("find", Providers[cur], "threw"))
            /\ Fail(message)
            /\ UNCHANGED <<results, cur, errors>>
    /\ UNCHANGED <<ip, combined, cmd, options, config, emitted, written>>

\* xResources = await api.find...(ip), or the catch block's errors.push
AllFindReturns ==
    /\ UNCHANGED <<adapter, remote>>
    /\ cmd = "all" /\ pc = "find"
    /\ \/ \E list \in Found(Providers[cur]) :
            /\ SetFound(Providers[cur], list)
            /\ calls' = Append(calls, Call("find", Providers[cur], "returned"))
            /\ UNCHANGED errors
       \/ \E message \in ErrorMessages(Providers[cur]) :
            /\ calls' = Append(calls, Call("find", Providers[cur], "threw"))
            /\ errors' = Append(errors, Thrown(Providers[cur], message))
            /\ UNCHANGED results
    /\ AfterProvider
    /\ UNCHANGED <<ip, combined, cmd, options, config, stderr, emitted, written, exitCode>>

\* the warnings and the result in the selected format
AllReport ==
    /\ UNCHANGED <<adapter, remote>>
    /\ cmd = "all" /\ pc = "report"
    /\ IF options.csv
         THEN /\ combined' = combineDomainData(ip, cloudflareRecords, coolifyResources,
                                               digitalOceanResources, gcpResources)
              /\ IF Truthy(options.output)
                   THEN SecureWriteFile("csv")
                   ELSE ConsoleLog("csv")
         ELSE /\ UNCHANGED combined
              /\ IF AllFormat(options) = "text"
                   THEN ConsoleLog("text")
                   ELSE IF Truthy(options.output)
                          THEN WriteFileSync(AllFormat(options))
                          ELSE ConsoleLog(AllFormat(options))
    /\ UNCHANGED <<ip, results, cmd, options, config, cur, calls, errors>>

(* the single-provider `ip` commands and the deprecated top-level `ip` *)

\* the deprecated command prints its notice and delegates to handleCloudflareIPSearch
DeprecatedIp ==
    /\ UNCHANGED <<adapter, remote>>
    /\ cmd = "ip" /\ pc = "start"
    /\ pc' = "handler"
    /\ UNCHANGED <<ip, results, combined, cmd, options, config, cur, calls, errors,
                   stderr, emitted, written, exitCode>>

AtHandler ==
    \/ cmd \in {"cloudflare", "coolify", "digitalocean", "gcp"} /\ pc = "start"
    \/ cmd = "ip" /\ pc = "handler"

SingleValidateIP ==
    /\ UNCHANGED <<adapter, remote>>
    /\ AtHandler
    /\ IF ~isValidIP(ip)
         THEN Fail("Invalid IP address")
         ELSE pc' = "config" /\ UNCHANGED <<stderr, exitCode>>
    /\ UNCHANGED <<ip, results, combined, cmd, options, config, cur, calls, errors,
                   emitted, written>>

SingleCheckConfig ==
    /\ UNCHANGED <<adapter, remote>>
    /\ cmd # "all" /\ pc = "config"
    /\ IF ~Validates(ProviderOf(cmd))
         THEN Fail("No valid " \o DisplayName(ProviderOf(cmd)) \o " credentials found.")
         ELSE pc' = "provider" /\ UNCHANGED <<stderr, exitCode>>
    /\ UNCHANGED <<ip, results, combined, cmd, options, config, cur, calls, errors,
                   emitted, written>>

\* try { const api = new XAPI(config); await api.testConnection() ...
SingleStart ==
    /\ UNCHANGED <<adapter, remote>>
    /\ cmd # "all" /\ pc = "provider"
    /\ calls' = calls \o << Call("new", ProviderOf(cmd), "returned"),
                            Call("testConnection", ProviderOf(cmd), "called") >>
    /\ pc' = "test"
    /\ UNCHANGED <<ip, results, combined, cmd, options, config, cur, errors,
                   stderr, emitted, written, exitCode>>

\* the handler searches whatever testConnection answered
SingleTestIgnored ==
    /\ UNCHANGED <<adapter, remote>>
    /\ cmd # "all" /\ pc = "test"
    /\ \E outcome \in {"true", "false"} :
         /\ calls' = calls \o << Call("testConnection", ProviderOf(cmd), outcome),
                                 Call("find", ProviderOf(cmd), "called") >>
         /\ pc' = "find"
    /\ UNCHANGED <<ip, results, combined, cmd, options, config, cur, errors,
                   stderr, emitted, written, exitCode>>

\* the hint a single-provider command displays when testConnection answers false
CheckCredentials(provider) ==
    IF provider = "coolify" THEN "Please check your credentials and Coolify URL"
    ELSE IF provider = "gcp" THEN "Please check your GCP project ID and credentials"
    ELSE "Please check your credentials"

\* if (!isConnected) process.exit(1); testConnection catches what its request throws
SingleTestReturns ==
    /\ UNCHANGED <<adapter, remote>>
    /\ cmd # "all" /\ pc = "test"
    /\ \E outcome \in {"true", "false"} :
         IF outcome = "true"
           THEN /\ calls' = calls \o << Call("testConnection", ProviderOf(cmd), outcome),
                                        Call("find", ProviderOf(cmd), "called") >>
                /\ pc' = "find"
                /\ UNCHANGED <<stderr, exitCode>>
         ELSE /\ calls' = Append(calls, Call("testConnection", ProviderOf(cmd), outcome))
              /\ Fail(CheckCredentials(ProviderOf(cmd)))
    /\ UNCHANGED <<ip, results, combined, cmd, options, config, cur, errors,
                   emitted, written>>

\* records = await api.find...(ip), or the catch block's process.exit(1)
SingleFindReturns ==
    /\ UNCHANGED <<adapter, remote>>
    /\ cmd # "all" /\ pc = "find"
    /\ \/ \E list \in Found(ProviderOf(cmd)) :
            /\ SetFound(ProviderOf(cmd), list)
            /\ calls' = Append(calls, Call("find", ProviderOf(cmd), "returned"))
            /\ pc' = "report"
            /\ UNCHANGED <<stderr, exitCode>>
       \/ \E message \in ErrorMessages(ProviderOf(cmd)) :
            /\ calls' = Append(calls, Call("find", ProviderOf(cmd), "threw"))
            /\ Fail(message)
            /\ UNCHANGED results
    /\ UNCHANGED <<ip, combined, cmd, options, config, cur, errors, emitted, written>>

\* the result in the selected format; every file goes through secureWriteFile
SingleReport ==
    /\ UNCHANGED <<adapter, remote>>
    /\ cmd # "all" /\ pc = "report"
    /\ IF SingleFormat(options) = "text"
         THEN IF Truthy(options.output)
                THEN \E accepted \in FileSystemAccepts :
                       /\ emitted' = [format |-> "text", target |-> "stdout"]
                       /\ IF validateFilePathRejects(options.output) \/ ~accepted
                            THEN Fail("Security error") /\ UNCHANGED written
                            ELSE /\ written' =
                                      Append(written,
                                             [path |-> ValidatedPath(options.output),
                                              validated |-> TRUE])
                                 /\ exitCode' = Exited(0)
                                 /\ pc' = "done"
                                 /\ UNCHANGED stderr
                ELSE ConsoleLog("text")
         ELSE IF Truthy(options.output)
                THEN SecureWriteFile(SingleFormat(options))
                ELSE ConsoleLog(SingleFormat(options))
    /\ UNCHANGED <<ip, results, combined, cmd, options, config, cur, calls, errors>>

NextCli ==
    \/ AllValidateIP
    \/ AllCheckConfig
    \/ AllStartProvider
    \/ AllTestReturns
    \/ AllFindReturns
    \/ AllReport
    \/ DeprecatedIp
    \/ SingleValidateIP
    \/ SingleCheckConfig
    \/ SingleStart
    \/ SingleTestReturns
    \/ SingleFindReturns
    \/ SingleReport

SpecCli == InitCli /\ [][NextCli]_vars

----------------------------------------------------------------------------
(* The CSV and JSON projections of `all ip`: SpecProject *)

\* a field that holds a comma is put between double quotes
CsvQuote(field) ==
    IF Includes(field, <<",">>) THEN <<"\"">> \o field \o <<"\"">> ELSE field

YesNo(flag) == IF flag THEN "Yes" ELSE "No"

CsvHeader ==
    <<"IP", "Name/Domain", "Type", "Service Provider", "In Coolify", "In DigitalOcean",
      "In GCP">>

\* a slip: the DigitalOcean and GCP columns are exchanged
CsvRowColumnsExchanged(row) ==
    << CsvQuote(row.ip), CsvQuote(row.domain),
       IF row.resourceType = "" THEN "domain" ELSE row.resourceType, row.dns,
       YesNo(row.inCoolify), YesNo(row.inGCP), YesNo(row.inDigitalOcean) >>

\* the cells of the line generateCSV appends for one entry; the line is the cells joined
\* by commas and ended by a newline
CsvRow(row) ==
    << CsvQuote(row.ip), CsvQuote(row.domain),
       IF row.resourceType = "" THEN "domain" ELSE row.resourceType, row.dns,
       YesNo(row.inCoolify), YesNo(row.inDigitalOcean), YesNo(row.inGCP) >>

\* the header line, then the entries' lines in the order of data
generateCSV(data) ==
    <<CsvHeader>> \o [i \in DOMAIN data |-> CsvRow(data[i])]

\* the summary object of the json output of `all ip`
JsonSummary(cloudflare, coolify, digitalOcean, gcp) ==
    [ cloudflare_domains |-> SetOrder(FilterMap(cloudflare, Always, NameOf)),
      coolify_domains |-> SetOrder(FilterMap(coolify, HasFqdn, FqdnOf)),
      digitalocean_resources |-> SetOrder(FilterMap(digitalOcean, Always, NameOf)),
      gcp_resources |-> SetOrder(FilterMap(gcp, Always, NameOf)),
      total_unique_domains |->
        Len(SetOrder(FilterMap(cloudflare, Always, NameOf)
                       \o FilterMap(coolify, HasFqdn, FqdnOf)
                       \o FilterMap(digitalOcean, HasDomain, DomainOf)
                       \o FilterMap(gcp, HasUrl, UrlHostOf))) ]

\* jsonResult of `all ip`
JsonResult(q, cloudflare, coolify, digitalOcean, gcp) ==
    [ ip |-> q,
      cloudflare |-> cloudflare,
      coolify |-> coolify,
      digitalocean |-> digitalOcean,
      gcp |-> gcp,
      summary |-> JsonSummary(cloudflare, coolify, digitalOcean, gcp) ]

\* a,b
Str_a_comma_b == <<"a", ",", "b">>

\* the droplets DigitalOcean can report in SpecProject: a droplet's name is free text
DropletChoices ==
    { [type |-> "droplet", name |-> Str_web, domain |-> <<>>],
      [type |-> "droplet", name |-> Str_a_comma_b, domain |-> <<>>],
      [type |-> "domain_record", name |-> Str_w_a_io, domain |-> Str_a_io] }

InitProject ==
    /\ pc = "report"
    /\ ip \in {q \in IPArguments : isValidIP(q)}
    /\ cloudflareRecords \in SeqsUpTo(CloudflareChoices, MaxResources - 1)
    /\ coolifyResources \in
         SeqsUpTo(CoolifyChoices, MaxResources - 1 - Len(cloudflareRecords))
    /\ digitalOceanResources \in
         SeqsUpTo(DropletChoices,
                  MaxResources - 1 - Len(cloudflareRecords) - Len(coolifyResources))
    /\ gcpResources \in
         SeqsUpTo(GCPChoices,
                  MaxResources - 1 - Len(cloudflareRecords) - Len(coolifyResources)
                    - Len(digitalOceanResources))
    /\ combined = <<>>
    /\ cmd = "all"
    /\ options \in { [json |-> j, simple |-> FALSE, csv |-> ~j, allProjects |-> FALSE,
                      output |-> <<>>] : j \in BOOLEAN }
    /\ config = [cloudflare |-> TRUE, coolify |-> TRUE, digitalocean |-> TRUE,
                 gcpAuth |-> TRUE, gcpValid |-> TRUE]
    /\ cur = 0
    /\ calls = <<>>
    /\ errors = <<>>
    /\ stderr = <<>>
    /\ emitted = NothingEmitted
    /\ written = <<>>
    /\ exitCode = Running
    /\ adapter = NoAdapter
    /\ remote = NoRemote

\* if (options.csv) { combineDomainData; generateCSV; console.log(csvOutput) }
ReportCsv ==
    /\ UNCHANGED <<adapter, remote>>
    /\ pc = "report" /\ options.csv
    /\ combined' = combineDomainData(ip, cloudflareRecords, coolifyResources,
                                     digitalOceanResources, gcpResources)
    /\ emitted' = [format |-> "csv", target |-> "stdout",
                   content |-> generateCSV(combined')]
    /\ exitCode' = Exited(0)
    /\ pc' = "done"
    /\ UNCHANGED <<ip, results, cmd, options, config, cur, calls, errors, stderr, written>>

\* else if (options.json) { jsonResult; console.log(jsonOutput) }
ReportJson ==
    /\ UNCHANGED <<adapter, remote>>
    /\ pc = "report" /\ ~options.csv /\ ~options.simple /\ options.json
    /\ emitted' = [format |-> "json", target |-> "stdout",
                   content |-> JsonResult(ip, cloudflareRecords, coolifyResources,
                                          digitalOceanResources, gcpResources)]
    /\ exitCode' = Exited(0)
    /\ pc' = "done"
    /\ UNCHANGED <<ip, results, combined, cmd, options, config, cur, calls, errors,
                   stderr, written>>

NextProject == ReportCsv \/ ReportJson

SpecProject == InitProject /\ [][NextProject]_vars

----------------------------------------------------------------------------
(* The adapters: what discovery does with the answers of a provider's API *)

\* the lists of a list, concatenated
RECURSIVE Flatten(_)
Flatten(lists) == IF lists = <<>> THEN <<>> ELSE Head(lists) \o Flatten(Tail(lists))

\* the provider whose API a request goes to
Owner(api) ==
    IF api \in {"verify", "zones", "dns_records"} THEN "cloudflare"
    ELSE IF api \in {"servers", "projects", "environments", "resources"} THEN "coolify"
    ELSE IF api \in {"account", "droplets", "load_balancers", "floating_ips", "domains",
                     "domain_records"}
      THEN "digitalocean"
    ELSE "gcp"

\* a request of an adapter to its API, as the run's log keeps it
Request(api, scope, result) ==
    [op |-> api, provider |-> Owner(api), scope |-> scope, result |-> result]

(* GCPAPI *)

\* constructor: the project ids come from the configuration unless auto-discovery is on
GCPAPI(gcpConfig) ==
    IF gcpConfig.autoDiscoverProjects \/ gcpConfig.gcpAutoDiscover
      THEN [autoDiscoverProjects |-> TRUE, projectIds |-> <<>>]
    ELSE IF Len(gcpConfig.gcpProjectIds) > 0
      THEN [autoDiscoverProjects |-> FALSE, projectIds |-> gcpConfig.gcpProjectIds]
    ELSE IF gcpConfig.gcpProjectId # ""
      THEN [autoDiscoverProjects |-> FALSE, projectIds |-> <<gcpConfig.gcpProjectId>>]
    ELSE [autoDiscoverProjects |-> FALSE, projectIds |-> <<>>]

\* the pages of the list-projects walk that are requested: the first, and, when its
\* response carries a projects array (an empty one included), the following ones while
\* the page before was answered with a next-page token
RECURSIVE PagesWalked(_, _)
PagesWalked(pages, n) ==
    IF n >= Len(pages) \/ ~pages[n].ok THEN n
    ELSE IF n = 1 /\ ~pages[1].listed THEN n
    ELSE PagesWalked(pages, n + 1)

\* discoverProjects: the outcome, the adapter afterwards and the requests made
discoverProjects(this, api) ==
    IF ~this.autoDiscoverProjects
      THEN [threw |-> FALSE, value |-> this.projectIds, this |-> this, log |-> <<>>,
            message |-> ""]
    ELSE LET last == PagesWalked(api.projectPages, 1)
             walked == SubSeq(api.projectPages, 1, last)
             log == [i \in 1..last |->
                       Request("listProjects", i,
                               IF walked[i].ok THEN "returned" ELSE "threw")]
         IN  IF \E i \in 1..last : ~walked[i].ok
               THEN [threw |-> TRUE, value |-> <<>>, this |-> this, log |-> log,
                     message |-> HttpError]
               ELSE LET discoveredProjects ==
                          Flatten([i \in 1..last |-> walked[i].projects])
                    IN  [threw |-> FALSE, value |-> discoveredProjects,
                         this |-> [this EXCEPT !.projectIds = discoveredProjects],
                         log |-> log, message |-> ""]

\* GCPAPI.testConnection
GcpTestConnection(this, api) ==
    IF this.autoDiscoverProjects
      THEN LET discovery == discoverProjects(this, api)
           IN  IF discovery.threw
                 THEN [value |-> FALSE, this |-> discovery.this, log |-> discovery.log]
                 ELSE [value |-> Len(discovery.value) # 0, this |-> discovery.this,
                       log |-> discovery.log]
    ELSE IF Len(this.projectIds) = 0
      THEN [value |-> FALSE, this |-> this, log |-> <<>>]
    ELSE IF this.projectIds[1] \in api.failing
      THEN [value |-> FALSE, this |-> this,
            log |-> <<Request("getProject", this.projectIds[1], "threw")>>]
    ELSE [value |-> TRUE, this |-> this,
          log |-> <<Request("getProject", this.projectIds[1], "returned")>>]

\* getComputeInstances, getGKEClusters: per project of this.projectIds a request, whose answer
\* is kept unless the request throws
GcpListing(this, api, kind) ==
    [ items |-> Flatten([i \in DOMAIN this.projectIds |->
                           IF this.projectIds[i] \in api.failing THEN <<>>
                           ELSE api.data[this.projectIds[i]][kind]]),
      log |-> [i \in DOMAIN this.projectIds |->
                 Request(kind, this.projectIds[i],
                         IF this.projectIds[i] \in api.failing THEN "threw"
                         ELSE "returned")] ]

\* the regions getCloudRunServices asks for
regions == <<"us-central1", "us-east1", "us-west1", "europe-west1", "asia-east1">>

\* getCloudRunServices: per project of this.projectIds and per region a request in a try
\* block of its own; the services of every answer are kept, a request that throws is
\* passed over
GcpCloudRunServices(this, api) ==
    LET throws(projectId, region) ==
          projectId \in api.failing \/ region \in api.unavailable
    IN  [ items |-> Flatten([i \in DOMAIN this.projectIds |->
                      Flatten([r \in DOMAIN regions |->
                                 IF throws(this.projectIds[i], regions[r]) THEN <<>>
                                 ELSE api.data[this.projectIds[i]].services])]),
          log |-> Flatten([i \in DOMAIN this.projectIds |->
                    [r \in DOMAIN regions |->
                       Request("services", this.projectIds[i],
                               IF throws(this.projectIds[i], regions[r]) THEN "threw"
                               ELSE "returned")]]) ]

\* getLoadBalancers: the global listing of a project, then its aggregated listing
GcpLoadBalancers(this, api) ==
    [ items |-> Flatten([i \in DOMAIN this.projectIds |->
                           IF this.projectIds[i] \in api.failing THEN <<>>
                           ELSE api.data[this.projectIds[i]].globalForwardingRules
                                  \o api.data[this.projectIds[i]].aggregatedForwardingRules]),
      log |-> [i \in DOMAIN this.projectIds |->
                 Request("forwardingRules", this.projectIds[i],
                         IF this.projectIds[i] \in api.failing THEN "threw"
                         ELSE "returned")] ]

\* an address matches when it begins with the queried one
GcpInstanceMatchesPrefix(instance, ipAddress) ==
    Flatten([n \in DOMAIN instance.networkInterfaces |->
       LET networkInterface == instance.networkInterfaces[n]
       IN  (IF StartsWith(networkInterface.networkIP, ipAddress)
              THEN <<[type |-> "compute_instance", name |-> instance.name,
                      ip_address |-> networkInterface.networkIP, url |-> <<>>]>>
              ELSE <<>>)
           \o FilterMap(networkInterface.accessConfigs,
                        LAMBDA accessConfig : StartsWith(accessConfig.natIP, ipAddress),
                        LAMBDA accessConfig :
                          [type |-> "compute_instance", name |-> instance.name,
                           ip_address |-> accessConfig.natIP, url |-> <<>>])])

\* the resources pushed for one instance: one per interface whose networkIP is the
\* address, and one per access configuration whose natIP is the address
GcpInstanceMatches(instance, ipAddress) ==
    Flatten([n \in DOMAIN instance.networkInterfaces |->
       LET networkInterface == instance.networkInterfaces[n]
       IN  (IF networkInterface.networkIP = ipAddress
              THEN <<[type |-> "compute_instance", name |-> instance.name,
                      ip_address |-> networkInterface.networkIP, url |-> <<>>]>>
              ELSE <<>>)
           \o FilterMap(networkInterface.accessConfigs,
                        LAMBDA accessConfig : accessConfig.natIP = ipAddress,
                        LAMBDA accessConfig :
                          [type |-> "compute_instance", name |-> instance.name,
                           ip_address |-> accessConfig.natIP, url |-> <<>>])])

\* the body of findResourcesByIP after the optional discovery
GcpSearch(this, api, ipAddress) ==
    LET instances == GcpListing(this, api, "instances")
        loadBalancers == GcpLoadBalancers(this, api)
        cloudRunServices == GcpCloudRunServices(this, api)
        gkeClusters == GcpListing(this, api, "clusters")
    IN  [ resources |->
            Flatten([i \in DOMAIN instances.items |->
                       GcpInstanceMatches(instances.items[i], ipAddress)])
            \o FilterMap(loadBalancers.items,
                         LAMBDA lb : lb.IPAddress = ipAddress,
                         LAMBDA lb : [type |-> "load_balancer", name |-> lb.name,
                                      ip_address |-> lb.IPAddress, url |-> <<>>])
            \o FilterMap(cloudRunServices.items,
                         LAMBDA service :
                           /\ Truthy(service.url)
                           /\ service.resolves
                           /\ \E a \in DOMAIN service.addresses :
                                service.addresses[a] = ipAddress,
                         LAMBDA service : [type |-> "cloud_run", name |-> service.name,
                                           ip_address |-> ipAddress, url |-> service.url])
            \o FilterMap(gkeClusters.items,
                         LAMBDA cluster : cluster.endpoint = ipAddress,
                         LAMBDA cluster : [type |-> "gke_cluster", name |-> cluster.name,
                                           ip_address |-> cluster.endpoint, url |-> <<>>]),
          log |-> instances.log \o loadBalancers.log \o cloudRunServices.log
                    \o gkeClusters.log ]

\* the list of projects is walked again by every search
GcpFindRediscovers(this, api, ipAddress) ==
    LET discovery == discoverProjects(this, api)
    IN  IF discovery.threw
          THEN [threw |-> TRUE, value |-> <<>>, this |-> discovery.this,
                log |-> discovery.log, message |-> discovery.message]
          ELSE LET search == GcpSearch(discovery.this, api, ipAddress)
               IN  [threw |-> FALSE, value |-> search.resources, this |-> discovery.this,
                    log |-> discovery.log \o search.log, message |-> ""]

\* GCPAPI.findResourcesByIP
GcpFindResourcesByIP(this, api, ipAddress) ==
    LET discovery ==
          IF this.autoDiscoverProjects /\ Len(this.projectIds) = 0
            THEN discoverProjects(this, api)
            ELSE [threw |-> FALSE, value |-> this.projectIds, this |-> this, log |-> <<>>,
                  message |-> ""]
    IN  IF discovery.threw
          THEN [threw |-> TRUE, value |-> <<>>, this |-> discovery.this,
                log |-> discovery.log, message |-> discovery.message]
          ELSE LET search == GcpSearch(discovery.this, api, ipAddress)
               IN  [threw |-> FALSE, value |-> search.resources, this |-> discovery.this,
                    log |-> discovery.log \o search.log, message |-> ""]


\* a sequence of requests made one after the other inside one try block: the first one
\* that throws ends the walk, and what the earlier ones collected is lost to the caller
Walk(steps) ==
    LET failed == {i \in DOMAIN steps : ~steps[i].ok}
    IN  IF failed = {}
          THEN [threw |-> FALSE,
                value |-> Flatten([i \in DOMAIN steps |-> steps[i].items]),
                log |-> [i \in DOMAIN steps |-> steps[i].request], message |-> ""]
          ELSE LET first == CHOOSE i \in failed : \A j \in failed : i <= j
               IN  [threw |-> TRUE, value |-> <<>>,
                    log |-> [i \in 1..first |-> steps[i].request],
                    message |-> steps[first].message]

\* one request of a walk, the resources it contributes, and the message of the error
\* HttpClient.request throws when the request is answered 500 without a body
Step(api, scope, ok, items) ==
    [request |-> Request(api, scope, IF ok THEN "returned" ELSE "threw"),
     ok |-> ok, items |-> items, message |-> IF ok THEN "" ELSE HttpError]

(* CloudflareAPI *)

\* testConnection: the token probe, or for key authentication the zones probe
CloudflareTestConnection(this, api) ==
    [value |-> api.verify, this |-> this,
     log |-> <<Request("verify", 0, IF api.verify THEN "returned" ELSE "threw")>>]

\* getZones(page), getDNSRecords(zoneId, page): the response to the request for page p
\* of a listing, whose result_info.total_pages counts the pages of the listing
CloudflarePageOf(pages, p) ==
    IF p \in DOMAIN pages THEN pages[p]
    ELSE [ok |-> TRUE, zones |-> <<>>, records |-> <<>>, total_pages |-> Len(pages)]

\* do { ...; page++ } while (page <= totalPages): the pages requested, in order; a
\* request that throws ends the loop
RECURSIVE CloudflarePagesFetched(_, _)
CloudflarePagesFetched(pages, currentPage) ==
    LET response == CloudflarePageOf(pages, currentPage)
    IN  IF response.ok /\ currentPage + 1 <= response.total_pages
          THEN <<currentPage>> \o CloudflarePagesFetched(pages, currentPage + 1)
          ELSE <<currentPage>>

\* the A and AAAA records of a page whose content is the address, with their zone
CloudflarePageMatches(zone, response, ipAddress) ==
    FilterMap(response.records,
              LAMBDA record : /\ record.type \in {"A", "AAAA"}
                              /\ record.content = ipAddress,
              LAMBDA record : [name |-> record.name, zone_name |-> zone.name,
                               type |-> record.type, content |-> record.content])

\* a zone whose record loop does not follow total_pages: only the first page is read
CloudflareZoneFirstPage(zone, ipAddress) ==
    LET response == CloudflarePageOf(zone.recordPages, 1)
    IN  << Step("dns_records", 1, response.ok,
                CloudflarePageMatches(zone, response, ipAddress)) >>

\* the record loop of one zone: recordPage runs from 1 while recordPage <= the
\* total_pages of the last response
CloudflareZoneSteps(zone, ipAddress) ==
    LET recordPages == CloudflarePagesFetched(zone.recordPages, 1)
    IN  [i \in DOMAIN recordPages |->
           LET response == CloudflarePageOf(zone.recordPages, recordPages[i])
           IN  Step("dns_records", recordPages[i], response.ok,
                    CloudflarePageMatches(zone, response, ipAddress))]

\* CloudflareAPI.handleError: the error of a request answered 500 carries the response
\* and is thrown anew as "Cloudflare API Error: <status> - <statusText>"; the error
\* handleError has thrown carries none and is thrown as it is
handleError(message) ==
    IF message = HttpError THEN CloudflareError ELSE message

\* CloudflareAPI.findDomainsByIP
findDomainsByIP(this, api, ipAddress) ==
    LET walk ==
          LET zonePages == CloudflarePagesFetched(api.zonePages, 1)
          IN  Walk(Flatten([i \in DOMAIN zonePages |->
                     LET response == CloudflarePageOf(api.zonePages, zonePages[i])
                     IN  <<Step("zones", zonePages[i], response.ok, <<>>)>>
                         \o Flatten([z \in DOMAIN response.zones |->
                                       CloudflareZoneSteps(response.zones[z],
                                                           ipAddress)])]))
    IN  [threw |-> walk.threw, value |-> walk.value, this |-> this, log |-> walk.log,
         message |-> IF walk.threw THEN handleError(walk.message) ELSE ""]

(* DigitalOceanAPI *)

\* testConnection: !!response.account, false when the request throws
DigitalOceanTestConnection(this, api) ==
    [value |-> api.account = "account", this |-> this,
     log |-> <<Request("account", 0,
                       IF api.account = "threw" THEN "threw" ELSE "returned")>>]

\* the resources pushed for one droplet: one per v4 entry and one per v6 entry whose
\* address is the queried one
DropletMatches(droplet, ipAddress) ==
    FilterMap(droplet.v4 \o droplet.v6,
              LAMBDA network : network = ipAddress,
              LAMBDA network : [type |-> "droplet", name |-> droplet.name,
                                ip_address |-> network, domain |-> <<>>])

\* HttpClient.request: the message of the error thrown for a response that is not ok
\* is the message of the JSON body, else the body's text, else "HTTP <status>: <text>"
ErrorMessage(response) ==
    IF response.body.kind \in {"json", "text"} /\ Truthy(response.body.message)
      THEN response.body.message
      ELSE <<"H","T","T","P"," ">> \o response.status \o <<":", " ">> \o response.statusText

\* getDomainRecords: the request throws unless the response is ok, and the error is
\* taken for "no records" when its message includes '404'
DomainRecordsThrow(response) ==
    /\ response.status # <<"2","0","0">>
    /\ ~Includes(ErrorMessage(response), <<"4","0","4">>)

\* the records of one domain; a request that throws, throws the message of its response
DomainRecordStep(domain, d, ipAddress) ==
  [ Step("domain_records", d, ~DomainRecordsThrow(domain.response),
         IF domain.response.status # <<"2","0","0">> THEN <<>>
         ELSE FilterMap(domain.domain_records,
                        LAMBDA record : /\ record.type \in {"A", "AAAA"}
                                        /\ record.data = ipAddress,
                        LAMBDA record :
                          [type |-> "domain_record",
                           name |-> IF record.name = <<"@">> THEN domain.name
                                    ELSE record.name \o <<".">> \o domain.name,
                           ip_address |-> record.data, domain |-> domain.name]))
    EXCEPT !.message = IF DomainRecordsThrow(domain.response)
                         THEN Text(ErrorMessage(domain.response)) ELSE "" ]

\* getDroplets(page = 1, perPage = 100)
PerPage == 100

DigitValue == [c \in Digits |-> CHOOSE n \in 0..9 : <<"0","1","2","3","4","5","6","7","8","9">>[n + 1] = c]

\* parseInt(s, 10) of a string of digits
RECURSIVE parseInt(_)
parseInt(s) ==
    IF s = <<>> THEN 0
    ELSE parseInt(SubSeq(s, 1, Len(s) - 1)) * 10 + DigitValue[s[Len(s)]]

\* url.match(/page=(\d+)/): the digits captured by the leftmost match, <<>> without one
LastPageMatch(url) ==
    LET starts == {i \in 1..(Len(url) - 5) :
                     /\ SubSeq(url, i, i + 4) = <<"p","a","g","e","=">>
                     /\ url[i + 5] \in Digits}
    IN  IF starts = {} THEN <<>>
        ELSE LET i == CHOOSE a \in starts : \A b \in starts : a <= b
                 end == CHOOSE j \in (i + 5)..Len(url) :
                          /\ \A k \in (i + 5)..j : url[k] \in Digits
                          /\ j = Len(url) \/ url[j + 1] \notin Digits
             IN  SubSeq(url, i + 5, end)

\* the totalPages of getDroplets and getLoadBalancers: from meta.total, else from the
\* page number in links.pages.last, else 1
TotalPages(response) ==
    IF response.total # 0
      THEN (response.total + PerPage - 1) \div PerPage
    ELSE IF Truthy(response.last) /\ LastPageMatch(response.last) # <<>>
      THEN parseInt(LastPageMatch(response.last))
    ELSE 1

\* the response to the request for page p of a listing; past its last page the listing
\* is empty
PageOf(pages, p) ==
    IF p \in DOMAIN pages THEN pages[p]
    ELSE [ok |-> TRUE, droplets |-> <<>>, load_balancers |-> <<>>, total |-> 0,
          last |-> <<>>]

\* a loop that asks for one page more than the response announced
HasMorePagesThrough(currentPage, totalPages) == currentPage <= totalPages

\* hasMorePages = currentPage < totalPages
HasMorePages(currentPage, totalPages) == currentPage < totalPages

\* while (hasMorePages): the pages requested, in order; a request that throws ends
\* the loop
RECURSIVE PagesFetched(_, _)
PagesFetched(pages, currentPage) ==
    LET response == PageOf(pages, currentPage)
    IN  IF response.ok /\ HasMorePages(currentPage, TotalPages(response))
          THEN <<currentPage>> \o PagesFetched(pages, currentPage + 1)
          ELSE <<currentPage>>

\* DigitalOceanAPI.findResourcesByIP
DigitalOceanFindResourcesByIP(this, api, ipAddress) ==
    LET dropletPages == PagesFetched(api.dropletPages, 1)
        loadBalancerPages == PagesFetched(api.loadBalancerPages, 1)
        walk ==
          Walk([i \in DOMAIN dropletPages |->
                  LET response == PageOf(api.dropletPages, dropletPages[i])
                  IN  Step("droplets", dropletPages[i], response.ok,
                           Flatten([d \in DOMAIN response.droplets |->
                                      DropletMatches(response.droplets[d], ipAddress)]))]
               \o [i \in DOMAIN loadBalancerPages |->
                     LET response == PageOf(api.loadBalancerPages, loadBalancerPages[i])
                     IN  Step("load_balancers", loadBalancerPages[i], response.ok,
                              FilterMap(response.load_balancers,
                                        LAMBDA lb : lb.ip = ipAddress,
                                        LAMBDA lb : [type |-> "load_balancer",
                                                     name |-> lb.name,
                                                     ip_address |-> lb.ip,
                                                     domain |-> <<>>]))]
               \o <<Step("floating_ips", 0, api.floatingIPs.ok,
                         FilterMap(api.floatingIPs.floating_ips,
                                   LAMBDA fip : fip.ip = ipAddress,
                                   LAMBDA fip : [type |-> "floating_ip",
                                                 name |-> IF Truthy(fip.droplet)
                                                            THEN fip.droplet
                                                            ELSE Str_Unassigned,
                                                 ip_address |-> fip.ip,
                                                 domain |-> <<>>]))>>
               \o <<Step("domains", 0, api.domains.ok, <<>>)>>
               \o [d \in DOMAIN api.domains.domains |->
                     DomainRecordStep(api.domains.domains[d], d, ipAddress)])
    IN  [threw |-> walk.threw, value |-> walk.value, this |-> this, log |-> walk.log,
         message |-> walk.message]

(* CoolifyAPI *)

\* testConnection: GET /servers answers or throws
CoolifyTestConnection(this, api) ==
    [value |-> api.reachable, this |-> this,
     log |-> <<Request("servers", 0, IF api.reachable THEN "returned" ELSE "threw")>>]

\* a resource is on a matching server by the server's uuid or id, or by its own server ip
OnMatchingServer(matchingServers, server, ipAddress) ==
    \/ \E s \in DOMAIN matchingServers :
         \/ matchingServers[s].uuid = server.uuid
         \/ matchingServers[s].id = server.id
    \/ server.ip = ipAddress

\* the resources pushed for one environment; a failed request is skipped
CoolifyEnvironmentResources(environment, matchingServers, ipAddress) ==
    IF ~environment.ok THEN <<>>
    ELSE FilterMap(environment.applications,
                   LAMBDA app : OnMatchingServer(matchingServers, app.server, ipAddress),
                   LAMBDA app : [type |-> "application", name |-> app.name,
                                 fqdn |-> app.fqdn, server_ip |-> ipAddress])
         \o FilterMap(environment.services,
                      LAMBDA service :
                        OnMatchingServer(matchingServers, service.server, ipAddress),
                      LAMBDA service : [type |-> "service", name |-> service.name,
                                        fqdn |-> service.fqdn, server_ip |-> ipAddress])
         \o FilterMap(environment.databases,
                      LAMBDA db : OnMatchingServer(matchingServers, db.server, ipAddress),
                      LAMBDA db : [type |-> "database", name |-> db.name,
                                   fqdn |-> <<>>, server_ip |-> ipAddress])

\* a project whose environment loop has no try block of its own: the first environment
\* that fails ends the project, and what it had pushed stays
CoolifyProjectEndsAtFailure(project, p, matchingServers, ipAddress) ==
    LET failed == {e \in DOMAIN project.environments : ~project.environments[e].ok}
        last == IF failed = {} THEN Len(project.environments)
                ELSE CHOOSE e \in failed : \A f \in failed : e <= f
    IN  [ items |->
            IF ~project.ok THEN <<>>
            ELSE Flatten([e \in 1..last |->
                            CoolifyEnvironmentResources(project.environments[e],
                                                        matchingServers, ipAddress)]),
          log |->
            <<Request("environments", p, IF project.ok THEN "returned" ELSE "threw")>>
            \o (IF ~project.ok THEN <<>>
                ELSE [e \in 1..last |->
                        Request("resources", p,
                                IF project.environments[e].ok THEN "returned"
                                ELSE "threw")]) ]

\* the requests and resources of one project; a failed environments request is skipped
CoolifyProject(project, p, matchingServers, ipAddress) ==
    [ items |->
        IF ~project.ok THEN <<>>
        ELSE Flatten([e \in DOMAIN project.environments |->
                        CoolifyEnvironmentResources(project.environments[e],
                                                    matchingServers, ipAddress)]),
      log |->
        <<Request("environments", p, IF project.ok THEN "returned" ELSE "threw")>>
        \o (IF ~project.ok THEN <<>>
            ELSE [e \in DOMAIN project.environments |->
                    Request("resources", p,
                            IF project.environments[e].ok THEN "returned"
                            ELSE "threw")]) ]

\* CoolifyAPI.findResourcesByIP
CoolifyFindResourcesByIP(this, api, ipAddress) ==
    LET matchingServers ==
          FilterMap(api.servers.servers, LAMBDA server : server.ip = ipAddress,
                    LAMBDA server : server)
        swept == [p \in DOMAIN api.projects.projects |->
                    CoolifyProject(api.projects.projects[p], p, matchingServers,
                                   ipAddress)]
    IN  IF ~api.servers.ok
          THEN [threw |-> TRUE, value |-> <<>>, this |-> this, message |-> HttpError,
                log |-> <<Request("servers", 0, "threw")>>]
        ELSE IF Len(matchingServers) = 0
          THEN [threw |-> FALSE, value |-> <<>>, this |-> this, message |-> "",
                log |-> <<Request("servers", 0, "returned")>>]
        ELSE IF ~api.projects.ok
          THEN [threw |-> TRUE, value |-> <<>>, this |-> this, message |-> HttpError,
                log |-> <<Request("servers", 0, "returned"),
                          Request("projects", 0, "threw")>>]
        ELSE [threw |-> FALSE,
              value |-> Flatten([p \in DOMAIN swept |-> swept[p].items]),
              this |-> this, message |-> "",
              log |-> <<Request("servers", 0, "returned"),
                        Request("projects", 0, "returned")>>
                      \o Flatten([p \in DOMAIN swept |-> swept[p].log])]


----------------------------------------------------------------------------
(* The provider blocks of `all ip`, and `gcp ip`, against the providers' APIs: SpecDiscover *)

\* number of pages of a paginated listing
MaxPages == 2

\* 10.0.0.1 and two addresses that are not it: 10.0.0.10, 10.0.0.01
Ip_10_0_0_1 == <<"1","0",".","0",".","0",".","1">>
Ip_10_0_0_10 == <<"1","0",".","0",".","0",".","1","0">>
Ip_10_0_0_01 == <<"1","0",".","0",".","0",".","0","1">>

Str_db == <<"d", "b">>
Str_lb == <<"l", "b">>
Str_gke == <<"g", "k", "e">>

SeqsFromTo(S, m, n) == UNION {[1..k -> S] : k \in m..n}

\* what a GCP project can hold
EmptyProject ==
    [instances |-> <<>>, globalForwardingRules |-> <<>>,
     aggregatedForwardingRules |-> <<>>, services |-> <<>>, clusters |-> <<>>]

\* an instance whose internal and NAT address are the same address, and a global
\* forwarding rule, which the aggregated listing reports under its "global" scope too
DoubledProject ==
    [instances |-> <<[name |-> Str_web,
                      networkInterfaces |->
                        <<[networkIP |-> Ip_10_0_0_1,
                           accessConfigs |-> <<[natIP |-> Ip_10_0_0_1]>>]>>]>>,
     globalForwardingRules |-> <<[name |-> Str_lb, IPAddress |-> Ip_10_0_0_1]>>,
     aggregatedForwardingRules |-> <<[name |-> Str_lb, IPAddress |-> Ip_10_0_0_1]>>,
     services |-> <<>>, clusters |-> <<>>]

\* resources whose addresses only begin with 10.0.0.1 or spell it with a leading zero
NearProject ==
    [instances |-> <<[name |-> Str_db,
                      networkInterfaces |->
                        <<[networkIP |-> Ip_10_0_0_10,
                           accessConfigs |-> <<[natIP |-> Ip_10_0_0_01]>>]>>]>>,
     globalForwardingRules |-> <<[name |-> Str_db, IPAddress |-> Ip_10_0_0_10]>>,
     aggregatedForwardingRules |-> <<>>,
     services |-> <<[name |-> Str_db, url |-> Url_A_io, resolves |-> TRUE,
                     addresses |-> <<Ip_10_0_0_10, Ip_10_0_0_01>>]>>,
     clusters |-> <<[name |-> Str_db, endpoint |-> Ip_10_0_0_01]>>]

ServiceProject ==
    [instances |-> <<>>, globalForwardingRules |-> <<>>,
     aggregatedForwardingRules |-> <<>>,
     services |-> <<[name |-> Str_api, url |-> Url_b_io, resolves |-> TRUE,
                     addresses |-> <<Ip_10_0_0_10, Ip_10_0_0_1>>],
                    [name |-> Str_svc, url |-> Url_A_io, resolves |-> FALSE,
                     addresses |-> <<>>]>>,
     clusters |-> <<[name |-> Str_gke, endpoint |-> Ip_10_0_0_1]>>]

\* the answers to a list-projects request: {"projects": [p]}, {"projects": [q]},
\* {"projects": []}, a response without the projects field, and a failure; every page
\* but the last of a listing carries a nextPageToken
GcpProjectPage ==
    { [ok |-> TRUE, listed |-> TRUE, projects |-> <<"p">>],
      [ok |-> TRUE, listed |-> TRUE, projects |-> <<"q">>],
      [ok |-> TRUE, listed |-> TRUE, projects |-> <<>>],
      [ok |-> TRUE, listed |-> FALSE, projects |-> <<>>],
      [ok |-> FALSE, listed |-> FALSE, projects |-> <<>>] }

\* the requests that throw: none; every request about project p; the Cloud Run requests
\* for two of the regions
GcpOutages ==
    { [failing |-> {}, unavailable |-> {}],
      [failing |-> {"p"}, unavailable |-> {}],
      [failing |-> {}, unavailable |-> {"us-east1", "asia-east1"}] }

\* the accounts: the outages and what the projects hold vary with the listings of up to
\* two pages
GcpRemoteChoices ==
    { api \in
        { [projectPages |-> pages, failing |-> outage.failing,
           unavailable |-> outage.unavailable, data |-> [p |-> dp, q |-> dq]] :
            pages \in SeqsFromTo(GcpProjectPage, 1, MaxPages),
            outage \in GcpOutages,
            dp \in {EmptyProject, DoubledProject, NearProject},
            dq \in {EmptyProject, ServiceProject} } :
        \/ Len(api.projectPages) <= 2
        \/ /\ api.failing = {} /\ api.unavailable = {}
           /\ api.data = [p |-> DoubledProject, q |-> ServiceProject] }

\* the GCP part of the configuration: GCP_PROJECT_IDS, GCP_PROJECT_ID, GCP_AUTO_DISCOVER
GcpConfigChoices ==
    { [gcpProjectIds |-> <<>>, gcpProjectId |-> "", gcpAutoDiscover |-> FALSE],
      [gcpProjectIds |-> <<>>, gcpProjectId |-> "", gcpAutoDiscover |-> TRUE],
      [gcpProjectIds |-> <<>>, gcpProjectId |-> "q", gcpAutoDiscover |-> FALSE],
      [gcpProjectIds |-> <<"p", "q">>, gcpProjectId |-> "", gcpAutoDiscover |-> FALSE],
      [gcpProjectIds |-> <<"q", "p">>, gcpProjectId |-> "p", gcpAutoDiscover |-> FALSE] }

\* what Cloudflare can hold: pages of zones, each zone with pages of DNS records
CloudflareRecordPage ==
    { [ok |-> TRUE, records |-> <<[type |-> "A", name |-> Str_a_io,
                                   content |-> Ip_10_0_0_1]>>],
      [ok |-> TRUE, records |-> <<[type |-> "A", name |-> Str_b_io,
                                   content |-> Ip_10_0_0_10],
                                  [type |-> "TXT", name |-> Str_b_io,
                                   content |-> Ip_10_0_0_1]>>],
      [ok |-> TRUE, records |-> <<[type |-> "AAAA", name |-> Str_w_a_io,
                                   content |-> Ip_10_0_0_01]>>],
      [ok |-> FALSE, records |-> <<>>] }

\* the pages of a listing as the API answers them: with result_info.total_pages
Numbered(pages) == [p \in DOMAIN pages |-> pages[p] @@ [total_pages |-> Len(pages)]]

CloudflareZonePage ==
    { [ok |-> TRUE, zones |-> <<[name |-> Str_a_io, recordPages |-> Numbered(pages)]>>] :
        pages \in SeqsFromTo(CloudflareRecordPage, 1, MaxPages) }
    \cup { [ok |-> FALSE, zones |-> <<>>] }

CloudflareRemoteChoices ==
    { [verify |-> verify, zonePages |-> Numbered(<<first>> \o rest)] :
        verify \in BOOLEAN,
        first \in CloudflareZonePage,
        rest \in SeqsFromTo({ [ok |-> TRUE, zones |-> <<>>], [ok |-> FALSE, zones |-> <<>>],
                              [ok |-> TRUE,
                               zones |-> <<[name |-> Str_b_io,
                                            recordPages |-> Numbered(<<[ok |-> TRUE,
                                              records |->
                                              <<[type |-> "A", name |-> Str_b_io,
                                                 content |-> Ip_10_0_0_1]>>]>>)]>>] },
                            0, MaxPages - 1) }

\* what DigitalOcean can hold
DropletPage ==
    { [ok |-> TRUE, droplets |-> <<[name |-> Str_web,
                                    v4 |-> <<Ip_10_0_0_1, Ip_10_0_0_1>>, v6 |-> <<>>]>>],
      [ok |-> TRUE, droplets |-> <<[name |-> Str_db,
                                    v4 |-> <<Ip_10_0_0_10>>, v6 |-> <<Ip_10_0_0_01>>]>>],
      [ok |-> TRUE, droplets |-> <<[name |-> Str_app,
                                    v4 |-> <<Ip_10_0_0_10, Ip_10_0_0_1>>, v6 |-> <<>>]>>],
      [ok |-> FALSE, droplets |-> <<>>] }

LoadBalancerPage ==
    { [ok |-> TRUE, load_balancers |-> <<[name |-> Str_lb, ip |-> Ip_10_0_0_1]>>],
      [ok |-> TRUE, load_balancers |-> <<[name |-> Str_db, ip |-> Ip_10_0_0_10]>>],
      [ok |-> FALSE, load_balancers |-> <<>>] }

\* the responses to GET /domains/{name}/records: the records; a 404 without a body; the
\* 404 of the API, whose JSON body carries a message; a 500 without a body
DomainRecordResponses ==
    { [status |-> <<"2","0","0">>, statusText |-> <<"O","K">>, body |-> [kind |-> "json", message |-> <<>>]],
      [status |-> <<"4","0","4">>, statusText |-> <<"N","o","t"," ","F","o","u","n","d">>,
       body |-> [kind |-> "empty", message |-> <<>>]],
      [status |-> <<"4","0","4">>, statusText |-> <<"N","o","t"," ","F","o","u","n","d">>,
       body |-> [kind |-> "json",
                 message |-> Str_NotFound]],
      [status |-> <<"5","0","0">>, statusText |-> <<"I","n","t","e","r","n","a","l"," ","S","e","r","v","e","r"," ","E","r","r","o","r">>,
       body |-> [kind |-> "empty", message |-> <<>>]] }

\* the domains of the account: none, a.io, or a.io and b.io
DomainAnswers ==
    { [ok |-> FALSE, domains |-> <<>>], [ok |-> TRUE, domains |-> <<>>] }
    \cup { [ok |-> TRUE,
            domains |-> <<[name |-> Str_a_io, response |-> first,
                           domain_records |->
                             <<[type |-> "A", name |-> <<"@">>, data |-> Ip_10_0_0_1],
                               [type |-> "A", name |-> <<"w">>, data |-> Ip_10_0_0_1],
                               [type |-> "A", name |-> <<"b">>,
                                data |-> Ip_10_0_0_01]>>]>> \o rest] :
           first \in DomainRecordResponses,
           rest \in { <<>>,
                      <<[name |-> Str_b_io,
                         response |-> [status |-> <<"2","0","0">>, statusText |-> <<"O","K">>,
                                       body |-> [kind |-> "json", message |-> <<>>]],
                         domain_records |->
                           <<[type |-> "AAAA", name |-> <<"@">>,
                              data |-> Ip_10_0_0_1]>>]>> } }

\* the decimal digits of a page number
DigitsOf(n) ==
    IF n < 10 THEN <<(<<"0","1","2","3","4","5","6","7","8","9">>)[n + 1]>>
    ELSE <<(<<"0","1","2","3","4","5","6","7","8","9">>)[(n \div 10) + 1],
           (<<"0","1","2","3","4","5","6","7","8","9">>)[(n % 10) + 1]>>

\* links.pages.last of a listing of n pages
Url_last(path, n) ==
    <<"h","t","t","p","s",":","/","/","a","p","i",".","d","i","g","i","t","a","l",
      "o","c","e","a","n",".","c","o","m","/","v","2","/">> \o path
    \o <<"?","p","a","g","e","=">> \o DigitsOf(n)
    \o <<"&","p","e","r","_","p","a","g","e","=","1","0","0">>

\* the pages of a listing as the API answers them: with meta.total, the number of
\* entries of the listing, of which a page holds up to a hundred; or with
\* links.pages.last on every page but the last; or with neither
Paged(pages, paging, path) ==
    [p \in DOMAIN pages |->
       pages[p] @@
       [total |-> IF paging = "meta" /\ pages[p].ok
                    THEN PerPage * (Len(pages) - 1) + 1 ELSE 0,
        last |-> IF paging = "links" /\ pages[p].ok /\ p < Len(pages)
                   THEN Url_last(path, Len(pages)) ELSE <<>>]]

\* the accounts: the domains vary with the accounts of one droplet page
DigitalOceanRemoteChoices ==
    { api \in
        { [account |-> "account",
           dropletPages |->
             Paged(dropletPages, paging, <<"d","r","o","p","l","e","t","s">>),
           loadBalancerPages |->
             Paged(loadBalancerPages, paging,
                   <<"l","o","a","d","_","b","a","l","a","n","c","e","r","s">>),
           floatingIPs |-> floatingIPs, domains |-> domains] :
            paging \in {"meta", "links", "none"},
            dropletPages \in SeqsFromTo(DropletPage, 1, MaxPages),
            loadBalancerPages \in SeqsFromTo(LoadBalancerPage, 1, 2),
            floatingIPs \in
              { [ok |-> FALSE, floating_ips |-> <<>>],
                [ok |-> TRUE,
                 floating_ips |-> <<[ip |-> Ip_10_0_0_1, droplet |-> Str_web],
                                    [ip |-> Ip_10_0_0_10, droplet |-> Str_db],
                                    [ip |-> Ip_10_0_0_1, droplet |-> <<>>]>>] },
            domains \in DomainAnswers } :
        Len(api.dropletPages) = 1 \/ (api.domains.ok /\ api.domains.domains = <<>>) }
    \cup { [account |-> "threw",
            dropletPages |-> Paged(<<[ok |-> FALSE, droplets |-> <<>>]>>, "none", <<>>),
            loadBalancerPages |->
              Paged(<<[ok |-> FALSE, load_balancers |-> <<>>]>>, "none", <<>>),
            floatingIPs |-> [ok |-> FALSE, floating_ips |-> <<>>],
            domains |-> [ok |-> FALSE, domains |-> <<>>]] }

\* what a Coolify instance can hold
CoolifyServers ==
    { [ok |-> FALSE, servers |-> <<>>],
      [ok |-> TRUE, servers |-> <<[id |-> 1, uuid |-> "s1", name |-> Str_web,
                                   ip |-> Ip_10_0_0_1],
                                  [id |-> 2, uuid |-> "s2", name |-> Str_db,
                                   ip |-> Ip_10_0_0_10]>>],
      [ok |-> TRUE, servers |-> <<[id |-> 2, uuid |-> "s2", name |-> Str_db,
                                   ip |-> Ip_10_0_0_01]>>] }

CoolifyEnvironment ==
    { [ok |-> FALSE, applications |-> <<>>, services |-> <<>>, databases |-> <<>>],
      [ok |-> TRUE,
       applications |-> <<[name |-> Str_app, fqdn |-> Str_a_io,
                           server |-> [id |-> 1, uuid |-> "s1", ip |-> Ip_10_0_0_1]],
                          [name |-> Str_api, fqdn |-> Str_b_io,
                           server |-> [id |-> 2, uuid |-> "s2", ip |-> Ip_10_0_0_10]]>>,
       services |-> <<[name |-> Str_svc, fqdn |-> Str_b_io,
                       server |-> [id |-> 3, uuid |-> "s3", ip |-> Ip_10_0_0_1]]>>,
       databases |-> <<[name |-> Str_db,
                        server |-> [id |-> 2, uuid |-> "s2", ip |-> Ip_10_0_0_01]]>>] }

CoolifyProjectChoices ==
    { [ok |-> FALSE, environments |-> <<>>] }
    \cup { [ok |-> TRUE, environments |-> environments] :
             environments \in SeqsFromTo(CoolifyEnvironment, 1, MaxPages) }

CoolifyRemoteChoices ==
    { [reachable |-> reachable, servers |-> servers, projects |-> projects] :
        reachable \in BOOLEAN,
        servers \in CoolifyServers,
        projects \in { [ok |-> FALSE, projects |-> <<>>] }
                     \cup { [ok |-> TRUE, projects |-> list] :
                              list \in SeqsFromTo(CoolifyProjectChoices, 1, 2) } }

RemoteChoices(provider) ==
    IF provider = "cloudflare" THEN CloudflareRemoteChoices
    ELSE IF provider = "coolify" THEN CoolifyRemoteChoices
    ELSE IF provider = "digitalocean" THEN DigitalOceanRemoteChoices
    ELSE GcpRemoteChoices

\* new XAPI(config): only the GCP adapter keeps state besides its HTTP client
Construct(provider) ==
    IF provider = "gcp"
      THEN GCPAPI([autoDiscoverProjects |-> options.allProjects,
                   gcpAutoDiscover |-> config.gcpAutoDiscover,
                   gcpProjectIds |-> config.gcpProjectIds,
                   gcpProjectId |-> config.gcpProjectId])
      ELSE [client |-> provider]

\* api.testConnection()
testConnection(provider, this, api) ==
    IF provider = "cloudflare" THEN CloudflareTestConnection(this, api)
    ELSE IF provider = "coolify" THEN CoolifyTestConnection(this, api)
    ELSE IF provider = "digitalocean" THEN DigitalOceanTestConnection(this, api)
    ELSE GcpTestConnection(this, api)

\* api.findDomainsByIP(ip), api.findResourcesByIP(ip)
findResourcesByIP(provider, this, api, ipAddress) ==
    IF provider = "cloudflare" THEN findDomainsByIP(this, api, ipAddress)
    ELSE IF provider = "coolify" THEN CoolifyFindResourcesByIP(this, api, ipAddress)
    ELSE IF provider = "digitalocean"
      THEN DigitalOceanFindResourcesByIP(this, api, ipAddress)
    ELSE GcpFindResourcesByIP(this, api, ipAddress)


(* The report of `all ip` *)

\* the characters of names in the order of their UTF-16 code units
CodeUnitOrder ==
    <<",", "-", ".", "/", "0","1","2","3","4","5","6","7","8","9", ":", "@">>
      \o UpperLetters \o <<"_">> \o LowerLetters

CodeUnit(c) == CHOOSE i \in DOMAIN CodeUnitOrder : CodeUnitOrder[i] = c

\* a < b in the order Array.prototype.sort() uses without a comparator
RECURSIVE CodeUnitsBefore(_, _)
CodeUnitsBefore(a, b) ==
    IF b = <<>> THEN FALSE
    ELSE IF a = <<>> THEN TRUE
    ELSE IF Head(a) # Head(b) THEN CodeUnit(Head(a)) < CodeUnit(Head(b))
    ELSE CodeUnitsBefore(Tail(a), Tail(b))

\* names.sort()
RECURSIVE Sort(_)
Sort(names) ==
    IF names = <<>> THEN <<>>
    ELSE LET sorted == Sort(SubSeq(names, 1, Len(names) - 1))
             last == names[Len(names)]
             k == Cardinality({i \in DOMAIN sorted : ~CodeUnitsBefore(last, sorted[i])})
         IN  SubSeq(sorted, 1, k) \o <<last>> \o SubSeq(sorted, k + 1, Len(sorted))

\* digitalOceanResources.map(r => r.domain || r.name)
DomainOrName(r) == IF Truthy(r.domain) THEN r.domain ELSE r.name

\* the simple report
SimpleResult(q, cloudflare, coolify, digitalOcean, gcp) ==
    [ ip |-> q,
      providers |->
        << [name |-> "cloudflare", type |-> "dns",
            resources |-> Sort(SetOrder(FilterMap(cloudflare, Always, NameOf)))],
           [name |-> "coolify", type |-> "applications",
            resources |-> Sort(SetOrder(FilterMap(coolify, HasFqdn, FqdnOf)))],
           [name |-> "digitalocean", type |-> "infrastructure",
            resources |-> Sort(SetOrder(FilterMap(digitalOcean, Always, DomainOrName)))],
           [name |-> "gcp", type |-> "cloud_resources",
            resources |-> Sort(SetOrder(FilterMap(gcp, Always, GCPIdentifier)))] >>,
      summary |->
        [ total_resources |->
            Len(cloudflare) + Len(coolify) + Len(digitalOcean) + Len(gcp),
          providers_found |->
            (IF Len(cloudflare) > 0 THEN <<"cloudflare">> ELSE <<>>)
            \o (IF Len(coolify) > 0 THEN <<"coolify">> ELSE <<>>)
            \o (IF Len(digitalOcean) > 0 THEN <<"digitalocean">> ELSE <<>>)
            \o (IF Len(gcp) > 0 THEN <<"gcp">> ELSE <<>>) ] ]

\* one provider's part of the text report: its resources under a heading, or the
\* "No ... found" line when the provider is configured, or nothing
TextSection(provider, list) ==
    IF Len(list) > 0
      THEN [heading |-> DisplayName(provider)
                          \o (IF provider = "cloudflare" THEN " Domains:"
                              ELSE " Resources:"),
            rows |-> list]
    ELSE IF Has(provider)
      THEN [heading |-> (IF provider = "cloudflare" THEN "No domains found in "
                         ELSE "No resources found in ") \o DisplayName(provider),
            rows |-> <<>>]
    ELSE [heading |-> "", rows |-> <<>>]

\* the text report: the sections and the summary counts
TextResult(cloudflare, coolify, digitalOcean, gcp) ==
    [ cloudflare |-> TextSection("cloudflare", cloudflare),
      coolify |-> TextSection("coolify", coolify),
      digitalocean |-> TextSection("digitalocean", digitalOcean),
      gcp |-> TextSection("gcp", gcp),
      summary |->
        [ total_unique_domains |->
            JsonSummary(cloudflare, coolify, digitalOcean, gcp).total_unique_domains,
          cloudflare_domains |->
            Len(JsonSummary(cloudflare, coolify, digitalOcean, gcp).cloudflare_domains),
          coolify_domains |->
            Len(JsonSummary(cloudflare, coolify, digitalOcean, gcp).coolify_domains),
          digitalocean_resources |->
            Len(JsonSummary(cloudflare, coolify, digitalOcean, gcp)
                  .digitalocean_resources),
          gcp_resources |->
            Len(JsonSummary(cloudflare, coolify, digitalOcean, gcp).gcp_resources) ] ]

\* what the run prints as its result, by format
ReportContent(format, q, cloudflare, coolify, digitalOcean, gcp) ==
    IF format = "csv"
      THEN generateCSV(combineDomainData(q, cloudflare, coolify, digitalOcean, gcp))
    ELSE IF format = "simple"
      THEN SimpleResult(q, cloudflare, coolify, digitalOcean, gcp)
    ELSE IF format = "json"
      THEN JsonResult(q, cloudflare, coolify, digitalOcean, gcp)
    ELSE TextResult(cloudflare, coolify, digitalOcean, gcp)

\* the line about a provider under "Warning: Not all services are configured"
NoticeLine(provider) ==
    IF Has(provider) THEN DisplayName(provider) \o ": Configured"
    ELSE IF provider # "gcp" THEN DisplayName(provider) \o ": Not configured (skipping)"
    ELSE IF options.allProjects /\ ~config.gcpAuth
      THEN "GCP: No authentication configured (skipping)"
    ELSE IF ~options.allProjects THEN "GCP: Not configured (skipping)"
    ELSE ""

\* the lines printed before the search when some provider is not configured
ConfigurationNotice ==
    IF \A i \in DOMAIN Providers : Has(Providers[i]) THEN <<>>
    ELSE [i \in DOMAIN Providers |-> NoticeLine(Providers[i])]

\* an account that answers every request and holds nothing
EmptyAccount(provider) ==
    IF provider = "cloudflare"
      THEN [verify |-> TRUE,
            zonePages |-> <<[ok |-> TRUE, zones |-> <<>>, total_pages |-> 1]>>]
    ELSE IF provider = "coolify"
      THEN [reachable |-> TRUE, servers |-> [ok |-> TRUE, servers |-> <<>>],
            projects |-> [ok |-> TRUE, projects |-> <<>>]]
    ELSE IF provider = "digitalocean"
      THEN [account |-> "account",
            dropletPages |-> <<PageOf(<<>>, 1)>>,
            loadBalancerPages |-> <<PageOf(<<>>, 1)>>,
            floatingIPs |-> [ok |-> TRUE, floating_ips |-> <<>>],
            domains |-> [ok |-> TRUE, domains |-> <<>>]]
    ELSE [projectPages |-> <<[ok |-> TRUE, listed |-> TRUE, projects |-> <<"p">>]>>,
          failing |-> {},
          unavailable |-> {}, data |-> [p |-> EmptyProject, q |-> EmptyProject]]

\* the provider whose account a run looks into
Studied == {"provider"}

\* the API of a provider: the account the run looks into, or an account that holds
\* nothing
Api(provider) ==
    IF provider = remote.provider THEN remote ELSE EmptyAccount(provider)

\* the GCP part of a configuration: of the provider looked into, a configuration that
\* names projects unless `all ip --all-projects` discovers them; of another provider,
\* one project; of a provider that is not configured, nothing
GcpConfigsOf(provider, only, command, allProjects) ==
    { c \in GcpConfigChoices :
        LET named == c.gcpAutoDiscover \/ c.gcpProjectIds # <<>> \/ c.gcpProjectId # ""
        IN  IF only # "gcp" THEN ~named
            ELSE IF provider # "gcp" THEN c.gcpProjectIds = <<>> /\ c.gcpProjectId = "q"
            ELSE IF command = "all" THEN named # allProjects
            ELSE named }

\* the configurations of a run that looks into a provider: that provider alone is
\* configured, or it is not configured and one other provider is
DiscoverConfigs(provider, configured, command, allProjects) ==
    UNION { { [cloudflare |-> only = "cloudflare",
               coolify |-> only = "coolify",
               digitalocean |-> only = "digitalocean",
               gcpAuth |-> only = "gcp",
               gcpValid |-> /\ only = "gcp"
                            /\ \/ gcp.gcpAutoDiscover
                               \/ gcp.gcpProjectIds # <<>>
                               \/ gcp.gcpProjectId # "",
               gcpProjectIds |-> gcp.gcpProjectIds, gcpProjectId |-> gcp.gcpProjectId,
               gcpAutoDiscover |-> gcp.gcpAutoDiscover] :
              gcp \in GcpConfigsOf(provider, only, command, allProjects) } :
            only \in IF configured THEN {provider}
                     ELSE {Providers[i] : i \in DOMAIN Providers} \ {provider} }

\* a run of `all ip 10.0.0.1` or of `gcp ip 10.0.0.1` with at most one format option,
\* after its checks of the argument and of the configuration, in which the account of
\* one provider is looked into
InitDiscover ==
    /\ pc = "provider"
    /\ cmd \in {"all", "gcp"}
    /\ ip \in {q \in IPArguments : isValidIP(q)}
    /\ cur = IF cmd = "all" THEN 1 ELSE 0
    /\ remote \in IF cmd = "all"
                    THEN UNION { { [provider |-> Providers[i]] }
                                   \cup { [provider |-> Providers[i]] @@ api :
                                            api \in RemoteChoices(Providers[i]) } :
                                 i \in DOMAIN Providers }
                    ELSE { [provider |-> "gcp"] @@ api : api \in RemoteChoices("gcp") }
    /\ options \in { o \in OptionChoices(cmd) :
                       /\ o.output = <<>>
                       /\ o.allProjects => remote.provider = "gcp"
                       /\ ~(o.json /\ o.simple) /\ ~(o.csv /\ (o.json \/ o.simple)) }
    /\ config \in DiscoverConfigs(remote.provider, DOMAIN remote # Studied, cmd,
                                  options.allProjects)
    /\ adapter = NoAdapter
    /\ cloudflareRecords = <<>>
    /\ coolifyResources = <<>>
    /\ digitalOceanResources = <<>>
    /\ gcpResources = <<>>
    /\ combined = <<>>
    /\ calls = <<>>
    /\ errors = <<>>
    /\ stderr = <<>>
    /\ emitted = NothingEmitted
    /\ written = <<>>
    /\ exitCode = Running

\* the provider whose block the run is in
Current == IF cmd = "all" THEN Providers[cur] ELSE ProviderOf(cmd)

\* all ip: if (hasX) { const api = new XAPI(config); isConnected = await
\* api.testConnection(); gcp ip: const api = new GCPAPI(apiConfig); isConnected = ...
DiscoverStartProvider ==
    /\ pc = "provider"
    /\ IF cmd = "all" => Has(Current)
         THEN /\ adapter' = Construct(Current)
              /\ calls' = calls \o << Call("new", Current, "returned"),
                                      Call("testConnection", Current, "called") >>
              /\ pc' = "test"
              /\ UNCHANGED cur
         ELSE /\ AfterProvider
              /\ UNCHANGED <<adapter, calls>>
    /\ UNCHANGED <<ip, results, combined, cmd, options, config, errors, stderr,
                   emitted, written, exitCode, remote>>

\* testConnection runs against the API; all ip: if (isConnected) find... else
\* errors.push; gcp ip: if (!isConnected) { displayError(...); process.exit(1) }
DiscoverTestReturns ==
    /\ pc = "test"
    /\ \E test \in {testConnection(Current, adapter, Api(Current))} :
           /\ adapter' = test.this
           /\ IF test.value
                THEN /\ calls' = calls \o test.log
                                   \o << Call("testConnection", Current, "true"),
                                         Call("find", Current, "called") >>
                     /\ pc' = "find"
                     /\ UNCHANGED <<cur, errors, stderr, exitCode>>
                ELSE /\ calls' = calls \o test.log
                                   \o << Call("testConnection", Current, "false") >>
                     /\ IF cmd = "all"
                          THEN /\ errors' = Append(errors, FailedToConnect(Current))
                               /\ AfterProvider
                               /\ UNCHANGED <<stderr, exitCode>>
                          ELSE /\ Fail(CheckCredentials(Current))
                               /\ UNCHANGED <<cur, errors>>
    /\ UNCHANGED <<ip, results, combined, cmd, options, config, emitted, written, remote>>

\* xResources = await api.find...(ip) against the API; the catch block of all ip
\* pushes the error's message to errors, the one of gcp ip displays it and exits
DiscoverFindReturns ==
    /\ pc = "find"
    /\ \E find \in {findResourcesByIP(Current, adapter, Api(Current), ip)} :
           /\ adapter' = find.this
           /\ calls' = calls \o find.log
                         \o << Call("find", Current,
                                    IF find.threw THEN "threw" ELSE "returned") >>
           /\ IF find.threw THEN UNCHANGED results ELSE SetFound(Current, find.value)
           /\ IF cmd = "all"
                THEN /\ errors' = IF find.threw
                                    THEN Append(errors, Thrown(Current, find.message))
                                    ELSE errors
                     /\ AfterProvider
                     /\ UNCHANGED <<stderr, exitCode>>
                ELSE /\ IF find.threw
                          THEN Fail(find.message)
                          ELSE pc' = "report" /\ UNCHANGED <<stderr, exitCode>>
                     /\ UNCHANGED <<cur, errors>>
    /\ UNCHANGED <<ip, combined, cmd, options, config, emitted, written, remote>>

\* all ip: the warnings, then the result in the selected format on standard output;
\* gcp ip: the result in the selected format on standard output
DiscoverReport ==
    /\ pc = "report"
    /\ IF cmd = "all"
         THEN /\ combined' = IF options.csv
                               THEN combineDomainData(ip, cloudflareRecords,
                                                      coolifyResources,
                                                      digitalOceanResources, gcpResources)
                               ELSE combined
              /\ emitted' = [format |-> AllFormat(options), target |-> "stdout",
                             notice |-> ConfigurationNotice,
                             warnings |-> errors,
                             content |-> ReportContent(AllFormat(options), ip,
                                                       cloudflareRecords, coolifyResources,
                                                       digitalOceanResources,
                                                       gcpResources)]
              /\ exitCode' = Exited(0)
              /\ pc' = "done"
              /\ UNCHANGED <<stderr, written>>
         ELSE /\ ConsoleLog(SingleFormat(options))
              /\ UNCHANGED combined
    /\ UNCHANGED <<ip, results, cmd, options, config, cur, calls, errors, adapter, remote>>

NextDiscover ==
    \/ DiscoverStartProvider
    \/ DiscoverTestReturns
    \/ DiscoverFindReturns
    \/ DiscoverReport

SpecDiscover == InitDiscover /\ [][NextDiscover]_vars

----------------------------------------------------------------------------
(* Properties of the merge *)

ProviderNames == {"cloudflare", "coolify", "digitalocean", "gcp"}

ListOf(provider) ==
    IF provider = "cloudflare" THEN cloudflareRecords
    ELSE IF provider = "coolify" THEN coolifyResources
    ELSE IF provider = "digitalocean" THEN digitalOceanResources
    ELSE gcpResources

\* the identifier under which a provider reports a resource: its DNS-like name
\* (record name, FQDN, URL host name) when it has one, else its bare name.  A
\* DigitalOcean domain record carries two DNS names, the record's and its domain's:
\* either is accepted as its identifier.
Identifiers(provider, r) ==
    IF provider = "cloudflare" THEN {r.name}
    ELSE IF provider = "coolify" THEN {IF Truthy(r.fqdn) THEN r.fqdn ELSE r.name}
    ELSE IF provider = "digitalocean"
      THEN {r.name} \cup (IF Truthy(r.domain) THEN {r.domain} ELSE {})
    ELSE {IF Truthy(r.url) THEN Hostname(r.url) ELSE r.name}

\* the provider whose loop created the entry, read off its label
CreatorOf(e) ==
    IF e.dns \in {"cloudflare", "cloudflare+coolify", "cloudflare+digitalocean",
                  "cloudflare+gcp", "cloudflare+coolify+digitalocean",
                  "cloudflare+coolify+gcp", "cloudflare+digitalocean+gcp", "all"}
      THEN "cloudflare"
    ELSE IF e.dns \in {"coolify", "coolify+digitalocean", "coolify+gcp",
                       "coolify+digitalocean+gcp"}
      THEN "coolify"
    ELSE e.dns

\* the providers an entry names
NamedProviders(e) ==
    {CreatorOf(e)} \cup (IF e.inCoolify THEN {"coolify"} ELSE {})
                   \cup (IF e.inDigitalOcean THEN {"digitalocean"} ELSE {})
                   \cup (IF e.inGCP THEN {"gcp"} ELSE {})

\* the part of an entry C3 speaks of: identifier, provider set and label
Membership(e) ==
    [domain |-> e.domain, dns |-> e.dns, providers |-> NamedProviders(e)]

Memberships(list) == [i \in DOMAIN list |-> Membership(list[i])]

Merged == pc = "merged"

\* C1: the list returned by combineDomainData holds no two entries with the same
\* `domain`, whatever the four input lists are.
C1_OneEntryPerIdentifier ==
    Merged => \A i, j \in DOMAIN combined :
                 i # j => combined[i].domain # combined[j].domain

\* C2: every entry names exactly the providers whose input list holds a resource
\* with the entry's identifier.  Stated in its weakest reading: a provider that
\* reports the identifier under every reading is named, and a named provider
\* reports it under some reading.
C2_MembershipIsUnion ==
    Merged =>
      \A i \in DOMAIN combined :
        \A provider \in ProviderNames :
          LET list == ListOf(provider)
              surely == \E k \in DOMAIN list :
                           Identifiers(provider, list[k]) = {combined[i].domain}
              possibly == \E k \in DOMAIN list :
                             combined[i].domain \in Identifiers(provider, list[k])
          IN  /\ surely => provider \in NamedProviders(combined[i])
              /\ provider \in NamedProviders(combined[i]) => possibly

\* C3: a call of combineDomainData on the same lists, or on the lists with elements
\* of one list exchanged, returns the same sequence of identifiers with the same
\* provider sets and labels as the call before it.
C3_OrderIndependent ==
    [][(Merged /\ pc' = "merged") => Memberships(combined') = Memberships(combined)]_vars

\* C3 witness: a merge of lists that hold two different resources of one provider
\* and a resource of another provider, with two entries in the result.
C3_Witness ==
    /\ Merged
    /\ Len(digitalOceanResources) = 2
    /\ digitalOceanResources[1] # digitalOceanResources[2]
    /\ Len(cloudflareRecords) = 1
    /\ Len(combined) >= 2
    /\ combined[1].dns = "cloudflare+digitalocean"

\* C4: every resource of every input list is represented by an entry under its
\* identifier.
C4_NoResourceDropped ==
    Merged =>
      \A provider \in ProviderNames :
        \A k \in DOMAIN ListOf(provider) :
          \E i \in DOMAIN combined :
            combined[i].domain \in Identifiers(provider, ListOf(provider)[k])

\* C5: the returned list is sorted by identifier: no entry's `domain` compares
\* greater (localeCompare) than the next entry's.
C5_SortedByIdentifier ==
    Merged => \A i \in 1..(Len(combined) - 1) :
                 localeCompare(combined[i].domain, combined[i + 1].domain) <= 0

\* C5 witness: an entry created by the last loop sorted before one created by the
\* first loop.
C5_Witness ==
    /\ Merged
    /\ Len(combined) >= 2
    /\ combined[1].dns = "gcp"
    /\ combined[2].dns = "cloudflare"

----------------------------------------------------------------------------
(* Properties of the `ip` commands *)

Configured == { Providers[i] : i \in { j \in DOMAIN Providers : Has(Providers[j]) } }

Made(op, provider, result) == \E i \in DOMAIN calls : calls[i] = Call(op, provider, result)

\* the provider failed: it could not connect, or its discovery threw
ProviderFailed(provider) ==
    \/ Made("testConnection", provider, "false")
    \/ Made("find", provider, "threw")

\* the entries of the warnings list that are about the provider
WarningsAbout(provider) ==
    { i \in DOMAIN errors :
        \/ errors[i] = FailedToConnect(provider)
        \/ \E message \in ErrorMessages(provider) : errors[i] = Thrown(provider, message) }

\* the arguments isValidIP accepts, and whether the run's argument is one of them
ValidIPArguments == { a \in IPArguments : isValidIP(a) }
ValidAddress == ip \in ValidIPArguments

\* `all ip` has gone through every provider block
AllSearched == cmd = "all" /\ calls # <<>> /\ pc \in {"report", "done"}

\* C6: in `all ip`, a provider's failure leaves the command running: every other
\* configured provider is still tested, and searched when its test answered true; the
\* warnings list holds exactly one entry for each provider that failed and none for the
\* others; a non-zero exit after the search is never due to a provider but to --output.
C6_FailureIsAWarning ==
    /\ (cmd = "all" /\ pc \in {"provider", "test", "find", "report"}) => exitCode = Running
    /\ AllSearched =>
         /\ \A p \in Configured :
              /\ Made("testConnection", p, "called")
              /\ Made("testConnection", p, "true") => Made("find", p, "called")
              /\ Cardinality(WarningsAbout(p)) = IF ProviderFailed(p) THEN 1 ELSE 0
         /\ Len(errors) = Cardinality({ p \in Configured : ProviderFailed(p) })
         /\ (pc = "done" /\ exitCode # Exited(0)) => Truthy(options.output)

\* three providers failed, by a false answer and by the two messages a discovery throws,
\* and the fourth was searched
C6_Witness ==
    /\ AllSearched /\ pc = "done" /\ exitCode = Exited(0)
    /\ Made("testConnection", "cloudflare", "false")
    /\ Made("find", "coolify", "threw")
    /\ Made("find", "digitalocean", "threw")
    /\ Made("find", "gcp", "returned")
    /\ errors = << FailedToConnect("cloudflare"), Thrown("coolify", HttpError),
                   Thrown("digitalocean", ResourceNotFound) >>

\* C7: in every `ip` command a provider's discovery is called only after that provider's
\* testConnection returned true in the run; after a false answer no discovery of that
\* provider is called, `all` goes on with the next provider and a single-provider
\* command ends with exit code 1.
C7_DiscoveryAfterConnection ==
    /\ \A i \in DOMAIN calls :
         calls[i].op = "find" =>
           \E j \in 1..(i - 1) : calls[j] = Call("testConnection", calls[i].provider, "true")
    /\ \A i \in DOMAIN calls :
         calls[i] = Call("testConnection", calls[i].provider, "false") =>
           /\ \A j \in DOMAIN calls :
                ~(calls[j].op = "find" /\ calls[j].provider = calls[i].provider)
           /\ cmd # "all" => (pc = "done" /\ exitCode = Exited(1) /\ emitted = NothingEmitted)
           /\ cmd = "all" => (exitCode = Running \/ AllSearched)

\* a single-provider command ended on a false answer, or `all` skipped one provider and
\* searched the next
C7_Witness ==
    \/ /\ cmd = "gcp" /\ pc = "done"
       /\ Made("testConnection", "gcp", "false")
    \/ /\ cmd = "all" /\ pc = "done"
       /\ Made("testConnection", "cloudflare", "false")
       /\ Made("find", "coolify", "returned")

NoProviderConfigured == Configured = {}

\* every list the search filled is empty
EmptyResult ==
    /\ cloudflareRecords = <<>>
    /\ coolifyResources = <<>>
    /\ digitalOceanResources = <<>>
    /\ gcpResources = <<>>

\* `all ip` with no provider configured: the explicit error, exit code 1, no adapter
\* constructed or called, nothing emitted or written
NoProviderIsAnError ==
    (cmd = "all" /\ ValidAddress /\ NoProviderConfigured) =>
      /\ calls = <<>>
      /\ emitted = NothingEmitted
      /\ written = <<>>
      /\ pc \in {"start", "config", "done"}
      /\ pc = "done" =>
           /\ exitCode = Exited(1)
           /\ stderr = <<"No valid credentials found for any service.">>

\* C8 (as amended): with no provider configured `all ip` reports the explicit error and
\* exits with code 1 without constructing or calling an adapter and without emitting a
\* result; a result is only ever emitted after the adapter of at least one configured
\* provider was constructed and its connection tested.
C8_ResultOnlyAfterConnecting ==
    /\ NoProviderIsAnError
    /\ (cmd = "all" /\ emitted # NothingEmitted) =>
         \E p \in Configured :
           /\ Made("new", p, "returned")
           /\ \/ Made("testConnection", p, "true")
              \/ Made("testConnection", p, "false")

\* C8 (as claimed): ... an empty result is only ever produced after at least one
\* configured provider was searched.
C8_ResultOnlyAfterSearching ==
    /\ NoProviderIsAnError
    /\ (cmd = "all" /\ emitted # NothingEmitted /\ EmptyResult) =>
         \E p \in Configured : Made("find", p, "called")

\* `all ip` ended on the missing configuration
C8_Witness ==
    /\ cmd = "all" /\ ValidAddress /\ NoProviderConfigured
    /\ pc = "done" /\ exitCode = Exited(1)

\* the --output file of `all ip` was asked for and not written
OutputNotWritten ==
    /\ Truthy(options.output)
    /\ AllFormat(options) # "text"
    /\ written = <<>>

\* C9 (as amended): `all ip` exits non-zero only when the IP argument is invalid, no
\* provider is configured, or --output is given with csv, simple or json and the file
\* is not written; with a valid IP and a configured provider it exits zero for every
\* combination of connection failures and discovery errors once the result is printed
\* or written.
C9_ExitCodeOfAll ==
    (cmd = "all" /\ pc = "done") =>
      exitCode = IF ~ValidAddress \/ NoProviderConfigured \/ OutputNotWritten
                   THEN Exited(1)
                   ELSE Exited(0)

\* C9 (as claimed): `all ip` exits non-zero only when the IP argument is invalid or no
\* provider is configured, and zero otherwise, for every output option with or without
\* --output.
C9_ExitCodeIgnoresOutput ==
    (cmd = "all" /\ pc = "done") =>
      exitCode = IF ~ValidAddress \/ NoProviderConfigured THEN Exited(1) ELSE Exited(0)

\* a search ended with code 1 because the csv file's path was refused
C9_Witness ==
    /\ cmd = "all" /\ pc = "done" /\ exitCode = Exited(1)
    /\ Made("find", "cloudflare", "returned")
    /\ options.csv
    /\ OutputNotWritten
    /\ stderr = <<"Security error">>

\* C10: in every `ip` command an argument that isValidIP rejects ends the command with
\* exit code 1 before an adapter is constructed or a call to a provider is made.
C10_InvalidIPEndsBeforeAnyCall ==
    ~ValidAddress =>
      /\ calls = <<>>
      /\ pc \in {"start", "handler", "done"}
      /\ emitted = NothingEmitted
      /\ pc = "done" => (exitCode = Exited(1) /\ stderr = <<"Invalid IP address">>)

\* the deprecated command ended on an address with an octet above 255
C10_Witness ==
    /\ cmd = "ip" /\ pc = "done" /\ exitCode = Exited(1)
    /\ ~ValidAddress
    /\ config.cloudflare

----------------------------------------------------------------------------
(* Properties of the projections *)

\* the field without the double quotes generateCSV may have put around it
Unquoted(field) ==
    IF Len(field) >= 2 /\ field[1] = "\"" /\ field[Len(field)] = "\""
      THEN SubSeq(field, 2, Len(field) - 1)
      ELSE field

CsvEmitted == pc = "done" /\ emitted.format = "csv"

\* C20: generateCSV emits one data row per entry, in the entries' order, and each row
\* holds the queried IP, the identifier, the resource kind, the provider label, then
\* Yes or No for Coolify, DigitalOcean and GCP, Yes exactly when the entry's flag is true.
C20_OneRowPerEntry ==
    CsvEmitted =>
      LET rows == emitted.content
      IN  /\ Len(rows) = Len(combined) + 1
          /\ \A i \in DOMAIN combined :
               LET row == rows[i + 1]
                   entry == combined[i]
               IN  /\ Len(row) = Len(CsvHeader)
                   /\ Unquoted(row[1]) = ip
                   /\ Unquoted(row[2]) = entry.domain
                   /\ row[3] = entry.resourceType
                   /\ row[4] = entry.dns
                   /\ row[5] = (IF entry.inCoolify THEN "Yes" ELSE "No")
                   /\ row[6] = (IF entry.inDigitalOcean THEN "Yes" ELSE "No")
                   /\ row[7] = (IF entry.inGCP THEN "Yes" ELSE "No")

\* a csv of two or more rows, one with a quoted name, one found in DigitalOcean only and
\* one found in GCP only
C20_Witness ==
    /\ CsvEmitted
    /\ Len(combined) >= 2
    /\ \E i \in DOMAIN combined : combined[i].domain = Str_a_comma_b
    /\ \E i \in DOMAIN combined : combined[i].inGCP /\ ~combined[i].inDigitalOcean
    /\ \E i \in DOMAIN combined : combined[i].inDigitalOcean /\ ~combined[i].inGCP

\* the csv rows and the json summary of the run, whichever of the two was emitted
CsvProjection ==
    IF emitted.format = "csv" THEN emitted.content
    ELSE generateCSV(combineDomainData(ip, cloudflareRecords, coolifyResources,
                                       digitalOceanResources, gcpResources))

JsonProjection ==
    IF emitted.format = "json" THEN emitted.content
    ELSE JsonResult(ip, cloudflareRecords, coolifyResources, digitalOceanResources,
                    gcpResources)

\* the json output lists the identifier under the provider: in the summary's list of the
\* provider or as the name, fqdn, domain or url host of a resource in the provider's array
JsonLists(json, provider, identifier) ==
    IF provider = "coolify"
      THEN \/ identifier \in Range(json.summary.coolify_domains)
           \/ \E i \in DOMAIN json.coolify : identifier = json.coolify[i].fqdn
    ELSE IF provider = "digitalocean"
      THEN \/ identifier \in Range(json.summary.digitalocean_resources)
           \/ \E i \in DOMAIN json.digitalocean : identifier = json.digitalocean[i].domain
    ELSE \/ identifier \in Range(json.summary.gcp_resources)
         \/ \E i \in DOMAIN json.gcp :
              HasUrl(json.gcp[i]) /\ identifier = UrlHostOf(json.gcp[i])

\* C19: the csv and the json projection of one `all ip` run agree: for every identifier
\* of the csv the Coolify, DigitalOcean and GCP columns say Yes exactly when the json
\* output lists the identifier under that provider, and the number of csv data rows is
\* the total the json summary reports.
C19_ProjectionsAgree ==
    pc = "done" =>
      LET rows == CsvProjection
          json == JsonProjection
      IN  /\ Len(rows) - 1 = json.summary.total_unique_domains
          /\ \A i \in 2..Len(rows) :
               /\ (rows[i][5] = "Yes") <=> JsonLists(json, "coolify", Unquoted(rows[i][2]))
               /\ (rows[i][6] = "Yes")
                    <=> JsonLists(json, "digitalocean", Unquoted(rows[i][2]))
               /\ (rows[i][7] = "Yes") <=> JsonLists(json, "gcp", Unquoted(rows[i][2]))


----------------------------------------------------------------------------
(* Properties of the adapters *)

\* the provider of the block the run looks into
Provider == remote.provider

\* the block of the provider is over
BlockDone == cmd = "all" /\ pc \in {"report", "done"} /\ Has(Provider)

\* the requests of one kind the run made, and the scopes they were made for, in order
Requests(kind) == FilterMap(calls, LAMBDA c : c.op = kind, LAMBDA c : c)
ScopesOf(kind) == FilterMap(calls, LAMBDA c : c.op = kind, LAMBDA c : c.scope)

\* the per-project listings of the GCP adapter
GcpLoops == {"instances", "forwardingRules", "services", "clusters"}

\* what a search of project Q alone returns
MatchesOfQ ==
    GcpSearch([autoDiscoverProjects |-> FALSE, projectIds |-> <<"q">>], remote, ip).resources

\* the run searched GCP projects P and Q, the requests for P threw and Q holds matches
FailingAndMatchingProject ==
    /\ BlockDone /\ Provider = "gcp"
    /\ remote.failing = {"p"}
    /\ ~discoverProjects(Construct("gcp"), remote).threw
    /\ {"p", "q"} \subseteq Range(discoverProjects(Construct("gcp"), remote).value)
    /\ MatchesOfQ # <<>>

\* C12: when the requests for GCP project P throw and those for project Q succeed and
\* match, the search does not throw, the result of the run holds all of Q's matches, and
\* the warnings of the run hold an entry about the failure.
C12_FailedProjectIsAWarning ==
    FailingAndMatchingProject =>
      /\ ~Made("find", "gcp", "threw")
      /\ Range(MatchesOfQ) \subseteq Range(gcpResources)
      /\ errors # <<>>


\* a page that failed, answered as a page without items
Answered(page, items) == IF page.ok THEN page ELSE [page EXCEPT !.ok = TRUE, ![items] = <<>>]

\* the provider's API with every failed page of a paginated listing answered empty
WithoutFailedPages(api) ==
    IF Provider = "cloudflare"
      THEN [api EXCEPT !.zonePages =
              [p \in DOMAIN api.zonePages |->
                 [ok |-> TRUE, total_pages |-> api.zonePages[p].total_pages,
                  zones |-> [z \in DOMAIN api.zonePages[p].zones |->
                    [api.zonePages[p].zones[z] EXCEPT !.recordPages =
                       [r \in DOMAIN api.zonePages[p].zones[z].recordPages |->
                          Answered(api.zonePages[p].zones[z].recordPages[r],
                                   "records")]]]]]]
      ELSE [api EXCEPT !.dropletPages =
                         [p \in DOMAIN api.dropletPages |->
                            Answered(api.dropletPages[p], "droplets")],
                       !.loadBalancerPages =
                         [p \in DOMAIN api.loadBalancerPages |->
                            Answered(api.loadBalancerPages[p], "load_balancers")]]

\* the run searched Cloudflare or DigitalOcean and a page of a paginated listing, and
\* nothing else, failed
OnlyPagesFailed ==
    /\ BlockDone /\ Provider \in {"cloudflare", "digitalocean"}
    /\ Made("testConnection", Provider, "true")
    /\ remote # WithoutFailedPages(remote)
    /\ ~findResourcesByIP(Provider, adapter, WithoutFailedPages(remote), ip).threw

\* C13: when a page of a paginated listing of Cloudflare or DigitalOcean fails, the
\* discovery does not throw and returns what the pages that were answered match.
C13_FailedPageIsSkipped ==
    OnlyPagesFailed =>
      /\ ~Made("find", Provider, "threw")
      /\ ListOf(Provider) =
           findResourcesByIP(Provider, adapter, WithoutFailedPages(remote), ip).value

\* C14: the connection test of an adapter leaves the adapter's fields as they were.
C14_TestConnectionKeepsAdapter ==
    [][pc = "test" => adapter' = adapter]_vars

\* the run's GCP adapter discovers its projects and the first list-projects request fails
ListProjectsFailed ==
    /\ cmd = "all" /\ pc \in {"find", "report", "done"}
    /\ Provider = "gcp" /\ Has("gcp")
    /\ adapter.autoDiscoverProjects
    /\ ~remote.projectPages[1].ok

\* what testConnection answers when the list-projects request is answered without
\* projects: with an empty projects array, or without the field
AnswerForNoProjects(listed) ==
    GcpTestConnection(Construct("gcp"),
                      [remote EXCEPT !.projectPages =
                         <<[ok |-> TRUE, listed |-> listed, projects |-> <<>>]>>])
      .value

\* C16: with auto-discovery, a list-projects request that fails gives the caller of
\* testConnection another outcome than an answer without projects does.
C16_EmptyIsNotFailure ==
    ListProjectsFailed =>
      \A listed \in BOOLEAN :
        ~Made("testConnection", "gcp",
              IF AnswerForNoProjects(listed) THEN "true" ELSE "false")


\* the number of times the run started the list-projects walk
ListProjectsWalks ==
    Len(FilterMap(calls, LAMBDA c : c.op = "listProjects" /\ c.scope = 1, LAMBDA c : c))

\* the project ids on the pages of the list-projects listing the run requested
ProducedList ==
    Flatten([i \in 1..Len(Requests("listProjects")) |-> remote.projectPages[i].projects])

\* the run constructed a GCP adapter that discovers its projects
AutoDiscovering ==
    /\ cmd \in {"all", "gcp"} /\ pc # "provider"
    /\ Provider = "gcp" /\ Has("gcp")
    /\ adapter.autoDiscoverProjects

\* every element of the list n times in a row
EachTimes(list, n) == Flatten([i \in DOMAIN list |-> [r \in 1..n |-> list[i]]])

\* C15: in a run of `all ip` or of `gcp ip` with GCP auto-discovery the list-projects
\* walk is started at most once, by testConnection and findResourcesByIP together, and
\* each of the four per-project listings of the search requests exactly the projects
\* that walk produced, in its order (the Cloud Run listing once per region for each of
\* them).
C15_DiscoveryOnce ==
    AutoDiscovering =>
      /\ ListProjectsWalks <= 1
      /\ Made("find", "gcp", "returned") =>
           \A kind \in GcpLoops :
             ScopesOf(kind) = IF kind = "services"
                                THEN EachTimes(ProducedList, Len(regions))
                                ELSE ProducedList

\* `gcp ip --all-projects` searched the two discovered projects p and q after one walk
\* of two pages
C15_Witness ==
    /\ AutoDiscovering /\ cmd = "gcp" /\ pc = "done"
    /\ Made("find", "gcp", "returned")
    /\ ListProjectsWalks = 1
    /\ ProducedList = <<"p", "q">>
    /\ ScopesOf("clusters") = <<"p", "q">>


\* the address a returned resource carries
AddressOf(resource) ==
    IF Provider = "cloudflare" THEN resource.content
    ELSE IF Provider = "coolify" THEN resource.server_ip
    ELSE resource.ip_address

\* the triples <<type, name, address>> the provider's API records: for every resource
\* of every listing, under the type the adapter reports it, each address one of its
\* address fields holds
RecordedAddresses(api) ==
    IF Provider = "cloudflare"
      THEN { <<record.type, record.name, record.content>> :
               record \in { r \in UNION { UNION { Range(page.records) :
                                                    page \in Range(zone.recordPages) } :
                                          zone \in UNION { Range(page.zones) :
                                                             page \in Range(api.zonePages) } } :
                              r.type \in {"A", "AAAA"} } }
    ELSE IF Provider = "coolify"
      THEN LET environments ==
                 UNION { Range(project.environments) :
                           project \in Range(api.projects.projects) }
               placed ==
                 UNION { { <<"application", r>> : r \in Range(e.applications) }
                           \cup { <<"service", r>> : r \in Range(e.services) }
                           \cup { <<"database", r>> : r \in Range(e.databases) } :
                         e \in environments }
           IN  { <<r[1], r[2].name, r[2].server.ip>> : r \in placed }
               \cup UNION { { <<r[1], r[2].name, s.ip>> :
                                s \in { t \in Range(api.servers.servers) :
                                          \/ t.uuid = r[2].server.uuid
                                          \/ t.id = r[2].server.id } } :
                            r \in placed }
    ELSE IF Provider = "digitalocean"
      THEN UNION { { <<"droplet", d.name, a>> : a \in Range(d.v4) \cup Range(d.v6) } :
                   d \in UNION { Range(page.droplets) :
                                   page \in Range(api.dropletPages) } }
           \cup { <<"load_balancer", lb.name, lb.ip>> :
                    lb \in UNION { Range(page.load_balancers) :
                                     page \in Range(api.loadBalancerPages) } }
           \cup { << "floating_ip",
                     IF Truthy(fip.droplet) THEN fip.droplet ELSE Str_Unassigned,
                     fip.ip >> : fip \in Range(api.floatingIPs.floating_ips) }
           \cup UNION { { << "domain_record",
                             IF record.name = <<"@">> THEN domain.name
                             ELSE record.name \o <<".">> \o domain.name,
                             record.data >> :
                            record \in { r \in Range(domain.domain_records) :
                                           r.type \in {"A", "AAAA"} } } :
                        domain \in Range(api.domains.domains) }
    ELSE LET projects == {api.data.p, api.data.q}
         IN  UNION { UNION { UNION { { <<"compute_instance", i.name, n.networkIP>> }
                                       \cup { <<"compute_instance", i.name, c.natIP>> :
                                                c \in Range(n.accessConfigs) } :
                                     n \in Range(i.networkInterfaces) } :
                             i \in Range(project.instances) }
                       \cup { <<"load_balancer", lb.name, lb.IPAddress>> :
                                lb \in Range(project.globalForwardingRules)
                                         \cup Range(project.aggregatedForwardingRules) }
                       \cup UNION { { <<"cloud_run", s.name, a>> : a \in Range(s.addresses) } :
                                    s \in { t \in Range(project.services) :
                                              Truthy(t.url) /\ t.resolves } }
                       \cup { <<"gke_cluster", c.name, c.endpoint>> :
                                c \in Range(project.clusters) } :
                     project \in projects }

\* C17: every resource a discovery returned carries the queried address and is, under
\* its type and name, a resource of the API one of whose address fields is, character
\* for character, the queried address; a resource whose addresses only begin with the
\* query or spell it with a leading zero is not returned.
C17_ExactMatchOnly ==
    BlockDone =>
      \A i \in DOMAIN ListOf(Provider) :
        /\ AddressOf(ListOf(Provider)[i]) = ip
        /\ <<ListOf(Provider)[i].type, ListOf(Provider)[i].name, ip>>
             \in RecordedAddresses(remote)

\* a GCP search over a project whose addresses are 10.0.0.10 and 10.0.0.01 and a project
\* with matches returned the matches
C17_Witness ==
    /\ BlockDone /\ pc = "done" /\ Provider = "gcp"
    /\ remote.data.p = NearProject
    /\ ScopesOf("instances") = <<"p", "q">>
    /\ remote.failing = {} /\ remote.unavailable = {}
    /\ Len(gcpResources) = Len(regions) + 1
    /\ <<"compute_instance", Str_db, Ip_10_0_0_10>> \in RecordedAddresses(remote)

\* no two entries of the list are the same non-empty page
Distinct(pages) ==
    \A i, j \in DOMAIN pages : i # j => pages[i] # pages[j] \/ ~pages[i].ok

\* the provider's API lists each of its resources once: no page of records, droplets or
\* environment resources is served twice
ListedOnce(api) ==
    IF Provider = "cloudflare"
      THEN Distinct(Flatten([p \in DOMAIN api.zonePages |->
             Flatten([z \in DOMAIN api.zonePages[p].zones |->
                        api.zonePages[p].zones[z].recordPages])]))
    ELSE IF Provider = "coolify"
      THEN Distinct(Flatten([p \in DOMAIN api.projects.projects |->
                               api.projects.projects[p].environments]))
    ELSE IF Provider = "digitalocean" THEN Distinct(api.dropletPages)
    ELSE TRUE

\* C18: when the API lists each resource once, the list a provider's discovery returned
\* holds no resource twice.
C18_NoResourceTwice ==
    BlockDone /\ ListedOnce(remote) =>
      \A i, j \in DOMAIN ListOf(Provider) :
        i # j => <<ListOf(Provider)[i].type, ListOf(Provider)[i].name>>
                   # <<ListOf(Provider)[j].type, ListOf(Provider)[j].name>>


\* the search returned although a request it made threw: the failure was skipped
PartiallyFailed ==
    /\ BlockDone
    /\ Made("find", Provider, "returned")
    /\ \E i \in DOMAIN calls : calls[i].result = "threw"

\* what the run of the same command shows when the provider is configured, every request
\* is answered and nothing matches
ZeroFoundDisplay ==
    [format |-> AllFormat(options), target |-> "stdout",
     notice |-> IF \A i \in DOMAIN Providers : Providers[i] # Provider => Has(Providers[i])
                  THEN <<>>
                  ELSE [i \in DOMAIN Providers |->
                          IF Providers[i] = Provider
                            THEN DisplayName(Provider) \o ": Configured"
                            ELSE NoticeLine(Providers[i])],
     warnings |-> <<>>,
     content |-> ReportContent(AllFormat(options), ip, <<>>, <<>>, <<>>, <<>>)]

\* C11: the report of `all ip` shows a provider that is not configured, and a provider
\* whose discovery skipped a failed request and matched nothing else, differently from a
\* configured provider for which nothing was found, in every output format.
C11_ReportDistinguishes ==
    pc = "done" /\ cmd = "all" =>
      /\ ~Has(Provider) => emitted.notice # ZeroFoundDisplay.notice
      /\ PartiallyFailed /\ ListOf(Provider) = <<>> => emitted # ZeroFoundDisplay


----------------------------------------------------------------------------
(* Properties of the sweeps *)

\* the response with which GET /domains/{name}/records answers with records
RecordsReturned(response) == response.status = <<"2","0","0">>

\* the account with every domain whose record request failed holding no records
WithoutFailedDomains(api) ==
    [api EXCEPT !.domains.domains =
       [d \in DOMAIN api.domains.domains |->
          IF RecordsReturned(api.domains.domains[d].response)
            THEN api.domains.domains[d]
            ELSE [name |-> api.domains.domains[d].name,
                  response |-> [status |-> <<"2","0","0">>, statusText |-> <<"O","K">>,
                                body |-> [kind |-> "json", message |-> <<>>]],
                  domain_records |-> <<>>]]]

\* the DigitalOcean search got as far as the domain records, and the record request of
\* a domain failed
DomainFetchFailed ==
    /\ BlockDone /\ Provider = "digitalocean"
    /\ Made("testConnection", "digitalocean", "true")
    /\ \A p \in DOMAIN remote.dropletPages : remote.dropletPages[p].ok
    /\ \A p \in DOMAIN remote.loadBalancerPages : remote.loadBalancerPages[p].ok
    /\ remote.floatingIPs.ok /\ remote.domains.ok
    /\ \E d \in DOMAIN remote.domains.domains :
         ~RecordsReturned(remote.domains.domains[d].response)

\* C21: when the record request of one DigitalOcean domain fails, with a 404 or another
\* error, the search does not throw, requests the records of every domain, and returns
\* what it returns when the failed domains hold no records.
C21_DomainFetchIndependent ==
    DomainFetchFailed =>
      /\ ~Made("find", "digitalocean", "threw")
      /\ Len(Requests("domain_records")) = Len(remote.domains.domains)
      /\ digitalOceanResources =
           DigitalOceanFindResourcesByIP(adapter, WithoutFailedDomains(remote), ip).value


\* the listed servers whose ip is the queried one
MatchingServers(api) ==
    FilterMap(api.servers.servers, LAMBDA server : server.ip = ip, LAMBDA server : server)

\* the environments whose resource tree was fetched, in project and environment order
FetchedEnvironments(api) ==
    Flatten([p \in DOMAIN api.projects.projects |->
               IF ~api.projects.projects[p].ok THEN <<>>
               ELSE FilterMap(api.projects.projects[p].environments,
                              LAMBDA e : e.ok, LAMBDA e : e)])

\* the resources of the fetched trees that are on a matching server or carry the address
ResourcesOnAddress(api) ==
    LET fetched == FetchedEnvironments(api)
    IN  Flatten([e \in DOMAIN fetched |->
                   CoolifyEnvironmentResources(fetched[e], MatchingServers(api), ip)])

\* the Coolify search ran and both of its listings answered
CoolifyListed ==
    /\ BlockDone /\ Provider = "coolify"
    /\ Made("testConnection", "coolify", "true")
    /\ remote.servers.ok /\ remote.projects.ok

\* C22: whatever the server list holds, the Coolify search returns the applications,
\* services and databases of the resource trees whose destination server is a listed
\* server with the queried ip, by uuid or id, or whose own embedded server ip is the
\* queried one, and no others.
C22_EmbeddedServerIpMatches ==
    CoolifyListed => coolifyResources = ResourcesOnAddress(remote)

\* some project or environment of the instance failed to answer
CoolifyFetchFailed ==
    \E p \in DOMAIN remote.projects.projects :
      \/ ~remote.projects.projects[p].ok
      \/ \E e \in DOMAIN remote.projects.projects[p].environments :
           ~remote.projects.projects[p].environments[e].ok

\* the number of environments of the projects that listed them
EnvironmentsListed(api) ==
    Len(Flatten([p \in DOMAIN api.projects.projects |->
                   api.projects.projects[p].environments]))

\* C23: when one environment's resource fetch or one project's environment listing
\* fails, the Coolify search does not throw, asks every project for its environments and
\* every listed environment for its resources, and returns the matches of all the trees
\* that answered, before and after the failure.
C23_FailedFetchIsSkipped ==
    (CoolifyListed /\ Len(MatchingServers(remote)) > 0 /\ CoolifyFetchFailed) =>
      /\ Made("find", "coolify", "returned")
      /\ ScopesOf("environments") = [p \in DOMAIN remote.projects.projects |-> p]
      /\ Len(Requests("resources")) = EnvironmentsListed(remote)
      /\ coolifyResources = ResourcesOnAddress(remote)

\* a failed environment is followed by one that answers, and resources are returned
C23_Witness ==
    /\ CoolifyListed /\ Len(MatchingServers(remote)) > 0
    /\ \E p \in DOMAIN remote.projects.projects :
         LET environments == remote.projects.projects[p].environments
         IN  /\ Len(environments) = 2
             /\ ~environments[1].ok /\ environments[2].ok
    /\ \E p \in DOMAIN remote.projects.projects : ~remote.projects.projects[p].ok
    /\ Len(coolifyResources) > 0


\* the zones of an account in listing order
ZonesListed(api) == Flatten([p \in DOMAIN api.zonePages |-> api.zonePages[p].zones])

\* the records of a zone in page order, each with the name of the zone
RecordsOfZone(zone) ==
    LET records == Flatten([p \in DOMAIN zone.recordPages |-> zone.recordPages[p].records])
    IN  [r \in DOMAIN records |-> [name |-> records[r].name, zone_name |-> zone.name,
                                   type |-> records[r].type,
                                   content |-> records[r].content]]

\* the Cloudflare search ran and every page it asked for answered
CloudflareNoFailure ==
    /\ BlockDone /\ Provider = "cloudflare"
    /\ Made("testConnection", "cloudflare", "true")
    /\ \A p \in DOMAIN remote.zonePages :
         /\ remote.zonePages[p].ok
         /\ \A z \in DOMAIN remote.zonePages[p].zones :
              \A r \in DOMAIN remote.zonePages[p].zones[z].recordPages :
                remote.zonePages[p].zones[z].recordPages[r].ok

\* C24: when no page fetch fails, the Cloudflare search requests every zone page once
\* and, for every zone, every record page once, in order, and returns exactly the A and
\* AAAA records whose content is the queried address, each with the name of its zone, in
\* zone order and then page order.
C24_EveryPageOnceInOrder ==
    CloudflareNoFailure =>
      LET zones == ZonesListed(remote)
          records == Flatten([z \in DOMAIN zones |-> RecordsOfZone(zones[z])])
      IN  /\ Made("find", "cloudflare", "returned")
          /\ ScopesOf("zones") = [p \in DOMAIN remote.zonePages |-> p]
          /\ ScopesOf("dns_records")
               = Flatten([z \in DOMAIN zones |->
                            [r \in DOMAIN zones[z].recordPages |-> r]])
          /\ cloudflareRecords
               = FilterMap(records,
                           LAMBDA record : /\ record.type \in {"A", "AAAA"}
                                           /\ record.content = ip,
                           LAMBDA record : record)

\* two zone pages and a zone of two record pages were read, and records of two zones
\* are returned
C24_Witness ==
    /\ CloudflareNoFailure
    /\ Len(remote.zonePages) = 2
    /\ \E z \in DOMAIN ZonesListed(remote) : Len(ZonesListed(remote)[z].recordPages) = 2
    /\ \E i, j \in DOMAIN cloudflareRecords :
         cloudflareRecords[i].zone_name # cloudflareRecords[j].zone_name


\* testConnection of an auto-discovering GCP adapter has returned and every page of the
\* list-projects listing answers
ProjectsDiscovered ==
    /\ AutoDiscovering /\ pc # "test"
    /\ \A i \in DOMAIN remote.projectPages : remote.projectPages[i].ok

\* C25: discoverProjects requests the next list-projects page as long as the page before
\* carried a token, whether or not that page, the first one included, held a project,
\* and keeps the project ids of all pages in page order.
C25_PagesUntilTokenExhausted ==
    ProjectsDiscovered =>
      /\ ScopesOf("listProjects") = [i \in DOMAIN remote.projectPages |-> i]
      /\ adapter.projectIds
           = Flatten([i \in DOMAIN remote.projectPages |-> remote.projectPages[i].projects])


\* the DigitalOcean search ran
DigitalOceanSearched ==
    /\ BlockDone /\ Provider = "digitalocean"
    /\ Made("testConnection", "digitalocean", "true")

\* the pages of a listing all answer
AllAnswer(pages) == \A p \in DOMAIN pages : pages[p].ok

\* a response carries neither meta.total nor links.pages.last
NoPagingInformation(response) == response.total = 0 /\ response.last = <<>>

\* the number of pages the first response of a listing reports: the hundreds that hold
\* meta.total entries, or the page number of links.pages.last
ReportedPages(pages) ==
    IF pages[1].total # 0 THEN CHOOSE n \in 1..pages[1].total :
                                 /\ n * PerPage >= pages[1].total
                                 /\ (n - 1) * PerPage < pages[1].total
    ELSE IF pages[1].last # <<>> THEN Len(pages)
    ELSE 1

\* the requests of one loop are the pages 1..n, each once, in increasing order
FetchedOnceInOrder(kind, n) == ScopesOf(kind) = [p \in 1..n |-> p]

\* C26: the droplet loop and the load-balancer loop of the DigitalOcean search end, and
\* when the pages answer each requests the pages 1..totalPages once each in increasing
\* order, totalPages being what the responses report; a response without paging
\* information ends the loop after that page.
C26_PageLoopsFetchEachPageOnce ==
    DigitalOceanSearched =>
      /\ AllAnswer(remote.dropletPages) =>
           /\ FetchedOnceInOrder("droplets", ReportedPages(remote.dropletPages))
           /\ NoPagingInformation(remote.dropletPages[1]) =>
                Len(Requests("droplets")) = 1
           /\ AllAnswer(remote.loadBalancerPages) =>
                /\ FetchedOnceInOrder("load_balancers",
                                      ReportedPages(remote.loadBalancerPages))
                /\ NoPagingInformation(remote.loadBalancerPages[1]) =>
                     Len(Requests("load_balancers")) = 1

\* a search over two droplet pages announced by links.pages.last and two load-balancer
\* pages
C26_Witness ==
    /\ DigitalOceanSearched
    /\ AllAnswer(remote.dropletPages) /\ AllAnswer(remote.loadBalancerPages)
    /\ remote.dropletPages[1].last # <<>>
    /\ Len(Requests("droplets")) = 2
    /\ Len(Requests("load_balancers")) = 2


\* the provider set of an entry: Cloudflare when a Cloudflare record carries the
\* identifier, and the providers of the entry's three flags; a DigitalOcean or GCP entry
\* is flagged for its own provider
ProviderSet(e) ==
    (IF \E k \in DOMAIN cloudflareRecords : cloudflareRecords[k].name = e.domain
       THEN {"cloudflare"} ELSE {})
    \cup (IF e.inCoolify THEN {"coolify"} ELSE {})
    \cup (IF e.inDigitalOcean THEN {"digitalocean"} ELSE {})
    \cup (IF e.inGCP THEN {"gcp"} ELSE {})

\* names.join('+')
RECURSIVE JoinPlus(_)
JoinPlus(names) ==
    IF names = <<>> THEN ""
    ELSE IF Len(names) = 1 THEN names[1]
    ELSE names[1] \o "+" \o JoinPlus(Tail(names))

\* the label of a provider set: its names in the order cloudflare, coolify,
\* digitalocean, gcp joined with '+', and 'all' for the four of them
LabelOf(set) ==
    IF set = ProviderNames THEN "all"
    ELSE JoinPlus(FilterMap(<<"cloudflare", "coolify", "digitalocean", "gcp">>,
                            LAMBDA provider : provider \in set,
                            LAMBDA provider : provider))

\* C27: in every entry of the merged list the label is the join with '+' of the names
\* of the providers of the entry's provider set in the order cloudflare, coolify,
\* digitalocean, gcp, and it is 'all' exactly when the set holds all four.
C27_LabelAgreesWithProviderSet ==
    Merged =>
      \A i \in DOMAIN combined :
        /\ combined[i].dns = LabelOf(ProviderSet(combined[i]))
        /\ combined[i].dns = "all" <=> ProviderSet(combined[i]) = ProviderNames

\* a merge with an entry of all four providers
C27_Witness ==
    /\ Merged
    /\ \E i \in DOMAIN combined : combined[i].dns = "all"


\* the providers that report an identifier, and the first of them in priority order
ReportersOf(domain) ==
    {provider \in ProviderNames :
       \E k \in DOMAIN ListOf(provider) :
         domain \in Identifiers(provider, ListOf(provider)[k])}

Priority(provider) == CHOOSE n \in DOMAIN Providers : Providers[n] = provider

HighestPriority(set) ==
    CHOOSE provider \in set : \A other \in set : Priority(provider) <= Priority(other)

\* the resource kind a provider's loop gives to a resource
KindGivenBy(provider, r) ==
    IF provider = "digitalocean" THEN DigitalOceanResourceType(r)
    ELSE IF provider = "gcp" THEN GCPResourceType(r)
    ELSE "domain"

\* C28: the resource kind of every entry is the kind that the highest-priority provider
\* reporting the entry's identifier (Cloudflare, then Coolify, then DigitalOcean, then
\* GCP) gives to a resource it reports under that identifier; a provider of lower
\* priority reporting the same identifier does not decide it.
C28_KindOfHighestPriorityProvider ==
    Merged =>
      \A i \in DOMAIN combined :
        LET first == HighestPriority(ReportersOf(combined[i].domain))
            list == ListOf(first)
        IN  \E k \in DOMAIN list :
              /\ combined[i].domain \in Identifiers(first, list[k])
              /\ combined[i].resourceType = KindGivenBy(first, list[k])


(* Properties of `all ip` as a whole *)

\* `all ip` has left its provider blocks
BlocksDone ==
    /\ cmd = "all" /\ pc \in {"report", "done"}
    /\ ValidAddress /\ ~NoProviderConfigured

\* no call was made on the provider's behalf, no warning names it, its list is empty
Skipped(provider) ==
    /\ \A i \in DOMAIN calls : calls[i].provider # provider
    /\ WarningsAbout(provider) = {}
    /\ ListOf(provider) = <<>>

\* what a provider contributes to the merge
Contribution(provider) == IF Has(provider) THEN ListOf(provider) ELSE <<>>

\* an adapter is constructed and tested for the configured providers and for no other,
\* and the merge is the merge of the configured providers' lists
ConstructedWhenConfigured ==
    /\ cmd = "all" =>
         \A i \in DOMAIN calls : Has(calls[i].provider)
    /\ BlocksDone =>
         \A provider \in ProviderNames :
           IF Has(provider)
             THEN /\ Made("new", provider, "returned")
                  /\ Made("testConnection", provider, "called")
             ELSE Skipped(provider)
    /\ (BlocksDone /\ pc = "done" /\ options.csv) =>
         combined = combineDomainData(ip, Contribution("cloudflare"),
                                      Contribution("coolify"),
                                      Contribution("digitalocean"), Contribution("gcp"))

\* C29 (as amended): in `all ip` with at least one provider configured, an adapter is
\* constructed and called for a provider exactly when it is configured; an unconfigured
\* provider causes no call, no warning and no failure of the command and contributes an
\* empty list to the merge.  With no provider configured the command ends with the
\* explicit error and exit code 1 without constructing an adapter.
C29_AdapterExactlyWhenConfigured ==
    /\ ConstructedWhenConfigured
    /\ (BlocksDone /\ pc = "done" /\ ~OutputNotWritten) => exitCode = Exited(0)
    /\ (cmd = "all" /\ ValidAddress /\ NoProviderConfigured /\ pc = "done") =>
         (exitCode = Exited(1) /\ calls = <<>>)

\* C29 (as claimed): an unconfigured provider causes no adapter call, no warning and no
\* failure of the command, whatever else is configured.
C29_UnconfiguredNeverFails ==
    /\ ConstructedWhenConfigured
    /\ (/\ cmd = "all" /\ ValidAddress /\ pc = "done"
        /\ \E provider \in ProviderNames : ~Has(provider)
        /\ ~OutputNotWritten) => exitCode = Exited(0)

\* a csv report of the lists of Cloudflare and DigitalOcean with Coolify and GCP not
\* configured
C29_Witness ==
    /\ BlocksDone /\ pc = "done" /\ options.csv /\ exitCode = Exited(0)
    /\ Has("cloudflare") /\ Has("digitalocean") /\ ~Has("coolify") /\ ~Has("gcp")
    /\ Len(cloudflareRecords) = 1 /\ Len(digitalOceanResources) = 1
    /\ Len(combined) = 2


\* C30: no file is written to a path that validateFilePath rejects, a path with '..'
\* or under a restricted system directory, in any command and any output format: every
\* write to the --output path goes through validateFilePath first.
C30_EveryWriteIsValidated ==
    written # <<>> => ~validateFilePathRejects(options.output)

============================================================================
